---- MODULE Spec2Model ----
(***************************************************************************)
(* Expresso: a minimal HTTP server runtime.  The module models the         *)
(* request dispatch engine: the Response value type, the route table, the  *)
(* continuation-based composition of per-route handler chains and of the   *)
(* global middleware chain, and the listener that drives one connection    *)
(* through read, parse, dispatch and write.                                *)
(*                                                                         *)
(* Closures are defunctionalised: a Handler is a record naming what the    *)
(* closure does and what it captured, a Next (continuation) likewise.      *)
(* Running a handler yields an outcome [res, log]: the Response it         *)
(* returned and the trace of what ran while it did.                        *)
(***************************************************************************)
EXTENDS Naturals, Sequences, FiniteSets, TLC

VARIABLES
    routes,       \* Expresso.routes: HashMap<String, Handler>
    middlewares,  \* Expresso.middlewares: Vec<Handler>
    listening,    \* Expresso::listen has been called
    last,         \* the last request dispatched by the listen closure, and its outcome
    router,       \* Router.routes: HashMap<String, Handler>
    adds,         \* the add_route calls made so far, in order
    looked,       \* the last find_handler call and what it returned
    server,       \* the Server: which listen loop runs, and whether it still accepts
    conns,        \* the connections: the task spawned for each, and its stream
    table,        \* the HashMap behind the RwLock of the route table
    rwlock,       \* the RwLock: who holds it, and who waits for it
    tasks,        \* the lookups and registrations that run against the table
    response,     \* a Response under construction
    built,        \* what Response::build last returned for it
    composed,     \* the request a client put on the wire, part by part
    octets,       \* the bytes handed to Request::from_raw
    parsed,       \* what Request::from_raw returned for them
    arcs,         \* what the two Arc<RwLock<..>> of Expresso hold: routes, middlewares
    guards,       \* the two RwLocks: who holds each, and who waits for it
    procs         \* the dispatches and registrations that run side by side

appVars == <<routes, middlewares, listening, last>>
routerVars == <<router, adds, looked>>
serverVars == <<server, conns>>
tableVars == <<table, rwlock, tasks>>
respVars == <<response, built>>
parseVars == <<composed, octets, parsed>>
dispVars == <<arcs, guards, procs>>
vars == <<routes, middlewares, listening, last, router, adds, looked, server, conns,
          table, rwlock, tasks, response, built, composed, octets, parsed,
          arcs, guards, procs>>

(***************************************************************************)
(* Bounds of the model.                                                    *)
(***************************************************************************)
MaxMiddlewares == 3
MaxHandlers == 2
MaxAddRoute == 3
NumConns == 2
NumLookups == 2
NumRegistrations == 1

(***************************************************************************)
(* Option<T> and HashMap<String, String>.                                  *)
(***************************************************************************)
None == <<>>
Some(x) == <<x>>
EmptyMap == [k \in {} |-> ""]
insert(map, key, value) ==
    [k \in DOMAIN map \cup {key} |-> IF k = key THEN value ELSE map[k]]
get_opt(map, key) == IF key \in DOMAIN map THEN Some(map[key]) ELSE None

SeqsUpTo(S, lo, hi) == UNION {[1..n -> S] : n \in lo..hi}

(***************************************************************************)
(* http/response.rs                                                        *)
(***************************************************************************)
Response_new ==
    [status_code |-> 200, status_text |-> "OK", headers |-> EmptyMap, body |-> None]

status_text_of(code) ==
    CASE code = 200 -> "OK"
      [] code = 201 -> "Created"
      [] code = 400 -> "Bad Request"
      [] code = 404 -> "Not Found"
      [] code = 500 -> "Internal Server Error"
      [] OTHER -> "Unknown"

status(res, code) ==
    [res EXCEPT !.status_code = code, !.status_text = status_text_of(code)]

\* set_header starting a new map for the header it sets.
set_header_alone(res, key, value) ==
    [res EXCEPT !.headers = insert(EmptyMap, key, value)]

set_header(res, key, value) ==
    [res EXCEPT !.headers = insert(res.headers, key, value)]

send(res, body) == [res EXCEPT !.body = Some(body)]

json(res, data) ==
    [res EXCEPT !.headers = insert(res.headers, "Content-Type", "application/json"),
                !.body = Some(data)]

(***************************************************************************)
(* http/request.rs: the accessors of a parsed Request.                     *)
(***************************************************************************)
Request(method, path, headers, body) ==
    [method |-> method, path |-> path, version |-> "HTTP/1.1",
     headers |-> headers, body |-> body]

header(req, key) == get_opt(req.headers, key)

(***************************************************************************)
(* The trace of one chain execution.  An event is recorded when a handler  *)
(* starts (with the Request and Response it was given), when the           *)
(* continuation it invoked hands a Response back to it, and when it        *)
(* returns.                                                                *)
(***************************************************************************)
Call(id, req, res) == [ev |-> "call", id |-> id, req |-> req, res |-> res]
NextRet(id, res) == [ev |-> "next", id |-> id, res |-> res]
Ret(id, res) == [ev |-> "ret", id |-> id, res |-> res]

MwId(i) == <<"m", i>>
HId(i) == <<"h", i>>
RouteId == <<"route", 0>>
NotFoundId == <<"notfound", 0>>
FallbackId == <<"fallback", 0>>

Outcome(res, log) == [res |-> res, log |-> log]

(***************************************************************************)
(* Reading the trace of a dispatch.                                        *)
(***************************************************************************)
At(log, ev, id) == {i \in DOMAIN log : log[i].ev = ev /\ log[i].id = id}
Called(log, id) == At(log, "call", id) # {}
InvokedNext(log, id) == At(log, "next", id) # {}
Returned(log, id) == At(log, "ret", id) # {}
ResAt(log, ev, id) == log[CHOOSE i \in At(log, ev, id) : TRUE].res
GivenRes(log, id) == ResAt(log, "call", id)
NextRes(log, id) == ResAt(log, "next", id)
RetRes(log, id) == ResAt(log, "ret", id)

\* The handler returned what its continuation handed back, unchanged.
PassedThrough(log, id) ==
    /\ InvokedNext(log, id)
    /\ Returned(log, id)
    /\ RetRes(log, id) = NextRes(log, id)

\* The handler returned without invoking its continuation.
ShortCircuited(log, id) == Returned(log, id) /\ ~InvokedNext(log, id)

(***************************************************************************)
(* types.rs: the two closure types.                                        *)
(*   Handler = Fn(Request, Response, Next) -> Response                     *)
(*   Next    = Fn() -> Response                                            *)
(* A Handler record is one of                                              *)
(*   user      a function lifted by into_handler (kind names its body)     *)
(*   chained   the closure into_chained_handler returns                    *)
(*   identity  the closure into_chained_handler returns for no handlers    *)
(*   notfound  the 404 closure of Expresso::listen                         *)
(*   wrap      one step of the fold over the global middlewares           *)
(* A Next record is one of                                                 *)
(*   fallback  the fixed 500 closure                                       *)
(*   route     the continuation execute_handlers builds                    *)
(*   mw        the continuation a wrap closure builds                      *)
(***************************************************************************)
FallbackNext == [type |-> "fallback"]

RouteNext(req, res, handlers, index, final_next) ==
    [type |-> "route", req |-> req, res |-> res, handlers |-> handlers,
     index |-> index, final_next |-> final_next]

MwNext(next_handler, req, res) ==
    [type |-> "mw", next_handler |-> next_handler, req |-> req, res |-> res]

into_handler(kind, id) == [type |-> "user", kind |-> kind, id |-> id]

RECURSIVE CallHandler(_, _, _, _)
RECURSIVE CallNext(_)
RECURSIVE execute_handlers(_, _, _, _, _)
RECURSIVE user_fn(_, _, _, _)

(***************************************************************************)
(* The 500 closure handed to the chain as its outermost continuation and   *)
(* to every inner stage as its final_next.                                 *)
(***************************************************************************)
internal_error ==
    LET res == send(status(Response_new, 500), "Internal Error")
    IN  Outcome(res, <<Call(FallbackId, None, res)>>)

(***************************************************************************)
(* Invoking a continuation.                                                *)
(***************************************************************************)
CallNext(next) ==
    CASE next.type = "fallback" -> internal_error
      [] next.type = "route" ->
            execute_handlers(next.req, next.res, next.handlers, next.index,
                             next.final_next)
      [] next.type = "mw" ->
            CallHandler(next.next_handler, next.req, next.res, FallbackNext)

(***************************************************************************)
(* The bodies of the functions the application registers.                  *)
(*   detailed_logger  middlewares/logger.rs: prints, then next().await     *)
(*   auth             main.rs: prints, then next().await                   *)
(*   cors             middlewares/cors.rs: next().await, then three        *)
(*                    set_header on what came back                         *)
(*   role_guard       main.rs, GET /protected, first handler               *)
(*   welcome          main.rs, GET /protected, second handler              *)
(*   hello            main.rs, GET /hello                                  *)
(*   submit           main.rs, POST /submit                                *)
(***************************************************************************)
pass_through(h, req, res, next) ==
    LET r == CallNext(next)
    IN  Outcome(r.res,
                <<Call(h.id, req, res)>> \o r.log \o <<NextRet(h.id, r.res), Ret(h.id, r.res)>>)

returns(h, req, res, out) == Outcome(out, <<Call(h.id, req, res), Ret(h.id, out)>>)

detailed_logger(h, req, res, next) == pass_through(h, req, res, next)

auth(h, req, res, next) == pass_through(h, req, res, next)

\* cors as it would be if it set its headers on the Response it was handed
\* instead of the one its continuation returned.
cors_on_input(h, req, res, next) ==
    LET r == CallNext(next)
        out == set_header(
                   set_header(
                       set_header(res, "Access-Control-Allow-Origin", "*"),
                       "Access-Control-Allow-Methods",
                       "GET, POST, PUT, DELETE, PATCH, OPTIONS"),
                   "Access-Control-Allow-Headers", "Content-Type, Authorization")
    IN  Outcome(out,
                <<Call(h.id, req, res)>> \o r.log \o <<NextRet(h.id, r.res), Ret(h.id, out)>>)

cors(h, req, res, next) ==
    LET r == CallNext(next)
        out == set_header(
                   set_header(
                       set_header(r.res, "Access-Control-Allow-Origin", "*"),
                       "Access-Control-Allow-Methods",
                       "GET, POST, PUT, DELETE, PATCH, OPTIONS"),
                   "Access-Control-Allow-Headers", "Content-Type, Authorization")
    IN  Outcome(out,
                <<Call(h.id, req, res)>> \o r.log \o <<NextRet(h.id, r.res), Ret(h.id, out)>>)

\* The same handler over a continuation that runs once and afterwards hands
\* back what it returned the first time.
invokes_next_twice_memoised(h, req, res, next) ==
    LET r1 == CallNext(next)
    IN  Outcome(r1.res,
                <<Call(h.id, req, res)>> \o r1.log \o <<NextRet(h.id, r1.res)>>
                    \o <<NextRet(h.id, r1.res), Ret(h.id, r1.res)>>)

\* A handler that invokes its continuation twice and returns what the second
\* invocation returned.  Next is a Fn: it can be called any number of times.
invokes_next_twice(h, req, res, next) ==
    LET r1 == CallNext(next)
        r2 == CallNext(next)
    IN  Outcome(r2.res,
                <<Call(h.id, req, res)>> \o r1.log \o <<NextRet(h.id, r1.res)>>
                    \o r2.log \o <<NextRet(h.id, r2.res), Ret(h.id, r2.res)>>)

role_guard(h, req, res, next) ==
    LET role == header(req, "X-User-Role")
    IN  IF role # None
        THEN IF role = Some("admin")
             THEN pass_through(h, req, res, next)
             ELSE returns(h, req, res, send(status(res, 403), "Forbidden: Admin role required"))
        ELSE returns(h, req, res, send(status(res, 403), "Forbidden: No role header"))

welcome(h, req, res, next) ==
    returns(h, req, res, send(status(res, 200), "Welcome to the protected area!"))

hello(h, req, res, next) ==
    returns(h, req, res, send(status(res, 200), "Hello, World!"))

submit(h, req, res, next) ==
    IF req.body # None
    THEN returns(h, req, res,
                 json(set_header(status(res, 201), "Content-Type", "application/json"),
                      "{\"message\":\"Data received\",\"data\":" \o req.body[1] \o "}"))
    ELSE returns(h, req, res, send(status(res, 400), "Bad Request: No body"))

user_fn(h, req, res, next) ==
    CASE h.kind = "detailed_logger" -> detailed_logger(h, req, res, next)
      [] h.kind = "auth" -> auth(h, req, res, next)
      [] h.kind = "cors" -> cors(h, req, res, next)
      [] h.kind = "role_guard" -> role_guard(h, req, res, next)
      [] h.kind = "welcome" -> welcome(h, req, res, next)
      [] h.kind = "hello" -> hello(h, req, res, next)
      [] h.kind = "submit" -> submit(h, req, res, next)
      [] h.kind = "invokes_next_twice" -> invokes_next_twice(h, req, res, next)

(***************************************************************************)
(* handler.rs / app/expresso.rs: execute_handlers.  Past the last index    *)
(* the Response in hand is returned; final_next is carried along and       *)
(* never invoked.                                                          *)
(***************************************************************************)
\* execute_handlers as a loop: a handler that returns without invoking its
\* continuation is followed by the next handler all the same.
execute_handlers_fallthrough(req, res, handlers, index, final_next) ==
    IF index >= Len(handlers)
    THEN Outcome(res, <<>>)
    ELSE LET r == CallHandler(handlers[index + 1], req, res,
                              RouteNext(req, res, handlers, index + 1, final_next))
         IN  IF index + 1 < Len(handlers) /\ ~InvokedNext(r.log, handlers[index + 1].id)
             THEN LET r2 == execute_handlers(req, r.res, handlers, index + 1, final_next)
                  IN  Outcome(r2.res, r.log \o r2.log)
             ELSE r

\* execute_handlers walking the vector from its end.
execute_handlers_reversed(req, res, handlers, index, final_next) ==
    IF index >= Len(handlers)
    THEN Outcome(res, <<>>)
    ELSE CallHandler(handlers[Len(handlers) - index], req, res,
                     RouteNext(req, res, handlers, index + 1, final_next))

\* execute_handlers invoking final_next past the last index.
execute_handlers_calls_final_next(req, res, handlers, index, final_next) ==
    IF index >= Len(handlers)
    THEN CallNext(final_next)
    ELSE CallHandler(handlers[index + 1], req, res,
                     RouteNext(req, res, handlers, index + 1, final_next))

execute_handlers(req, res, handlers, index, final_next) ==
    IF index >= Len(handlers)
    THEN Outcome(res, <<>>)
    ELSE CallHandler(handlers[index + 1], req, res,
                     RouteNext(req, res, handlers, index + 1, final_next))

(***************************************************************************)
(* Invoking a Handler.                                                     *)
(***************************************************************************)
\* A 404 handler that invokes the continuation it is handed.
not_found_invokes_next(req, res, next) ==
    LET r == CallNext(next)
    IN  Outcome(r.res, <<Call(NotFoundId, req, res)>> \o r.log \o <<Ret(NotFoundId, r.res)>>)

not_found(req, res, next) ==
    LET out == send(status(res, 404), "Not Found")
    IN  Outcome(out, <<Call(NotFoundId, req, res), Ret(NotFoundId, out)>>)

chained(h, req, res, final_next) ==
    LET r == execute_handlers(req, res, h.handlers, 0, final_next)
    IN  Outcome(r.res, <<Call(RouteId, req, res)>> \o r.log \o <<Ret(RouteId, r.res)>>)

\* The wrap closure handing on the Response with a mark of its own.
wrap_forwards_changed_response(h, req, res, final_next) ==
    CallHandler(h.mw, req, res,
                MwNext(h.next_handler, req, set_header(res, "X-Stage", "seen")))

\* The wrap closure handing on a Request it rewrote.
wrap_forwards_changed_request(h, req, res, final_next) ==
    CallHandler(h.mw, req, res,
                MwNext(h.next_handler, [req EXCEPT !.path = "/rewritten"], res))

\* The wrap closure running the next handler itself when the middleware did not.
wrap_runs_next_anyway(h, req, res, final_next) ==
    LET a == CallHandler(h.mw, req, res, MwNext(h.next_handler, req, res))
    IN  IF InvokedNext(a.log, h.mw.id)
        THEN a
        ELSE LET b == CallHandler(h.next_handler, req, res, FallbackNext)
             IN  Outcome(b.res, a.log \o b.log)

wrap(h, req, res, final_next) ==
    CallHandler(h.mw, req, res, MwNext(h.next_handler, req, res))

CallHandler(h, req, res, next) ==
    CASE h.type = "user" -> user_fn(h, req, res, next)
      [] h.type = "chained" -> chained(h, req, res, next)
      [] h.type = "identity" -> Outcome(res, <<>>)
      [] h.type = "notfound" -> not_found(req, res, next)
      [] h.type = "wrap" -> wrap(h, req, res, next)

(***************************************************************************)
(* IntoHandlers: a tuple of functions becomes one Handler.                 *)
(***************************************************************************)
into_handler_vec(fns) == [i \in 1..Len(fns) |-> into_handler(fns[i], HId(i - 1))]

into_chained_handler(fns) ==
    LET handlers == into_handler_vec(fns)
    IN  IF Len(handlers) = 0
        THEN [type |-> "identity"]
        ELSE [type |-> "chained", handlers |-> handlers]

(***************************************************************************)
(* The fold of Expresso::listen (and MiddlewareManager::build_chain):      *)
(* middlewares.into_iter().rev().fold(final_handler, |next_handler, mw| ..)*)
(***************************************************************************)
rev(seq) == [i \in 1..Len(seq) |-> seq[Len(seq) + 1 - i]]

RECURSIVE fold(_, _, _)
fold(seq, acc, i) ==
    IF i > Len(seq)
    THEN acc
    ELSE fold(seq, [type |-> "wrap", mw |-> seq[i], next_handler |-> acc], i + 1)

\* The fold without .rev(): the last registered middleware ends up outermost.
build_chain_unreversed(mws, final_handler) == fold(mws, final_handler, 1)

\* A chain that always has one stage of its own around the handler.
build_chain_own_stage(mws, final_handler) ==
    fold(rev(mws) \o <<into_handler("detailed_logger", MwId(Len(mws)))>>, final_handler, 1)

build_chain(mws, final_handler) == fold(rev(mws), final_handler, 1)

(***************************************************************************)
(* The closure Expresso::listen hands to the server: look the route up,    *)
(* fall back to the 404 handler, wrap with the global middlewares, run the *)
(* chain on a fresh Response.                                              *)
(***************************************************************************)
route_key(req) == req.method \o ":" \o req.path

final_handler_of(route_handler) ==
    IF route_handler # None THEN route_handler[1] ELSE [type |-> "notfound"]

\* The listen closure starting the chain on the Response of an earlier request.
listen_closure_keeps_response(rts, mws, req) ==
    LET served == {c \in DOMAIN conns : conns[c].res # None}
        res == IF served # {}
               THEN conns[CHOOSE c \in served : TRUE].res[1]
               ELSE Response_new
        key == route_key(req)
        route_handler == get_opt(rts, key)
        final_handler == final_handler_of(route_handler)
        chain == build_chain(mws, final_handler)
        r == CallHandler(chain, req, res, FallbackNext)
    IN  [req |-> req, route_handler |-> route_handler, mws |-> mws,
         res |-> r.res, log |-> r.log]

\* The listen closure answering an unmatched request with the bare 404 handler.
listen_closure_bare_404(rts, mws, req) ==
    LET res == Response_new
        key == route_key(req)
        route_handler == get_opt(rts, key)
        final_handler == final_handler_of(route_handler)
        chain == IF route_handler = None
                 THEN final_handler
                 ELSE build_chain(mws, final_handler)
        r == CallHandler(chain, req, res, FallbackNext)
    IN  [req |-> req, route_handler |-> route_handler, mws |-> mws,
         res |-> r.res, log |-> r.log]

listen_closure(rts, mws, req) ==
    LET res == Response_new
        key == route_key(req)
        route_handler == get_opt(rts, key)
        final_handler == final_handler_of(route_handler)
        chain == build_chain(mws, final_handler)
        r == CallHandler(chain, req, res, FallbackNext)
    IN  [req |-> req, route_handler |-> route_handler, mws |-> mws,
         res |-> r.res, log |-> r.log]

(***************************************************************************)
(* The application: registration at startup, then listen, then requests.   *)
(* The functions registered are drawn from those the repository ships.     *)
(***************************************************************************)
MiddlewareFns == {"detailed_logger", "cors", "role_guard", "welcome"}
HandlerFns == {"detailed_logger", "cors", "role_guard", "welcome"}
GetTuples == SeqsUpTo(HandlerFns, 1, MaxHandlers)
PostTuples == {<<"submit">>}
RegPaths == {"/x"}

AdminRole == [k \in {"X-User-Role"} |-> "admin"]
UserRole == [k \in {"X-User-Role"} |-> "user"]

Requests ==
    { Request("GET", "/x", AdminRole, None),
      Request("GET", "/x", EmptyMap, None),
      Request("GET", "/x", UserRole, None),
      Request("GET", "/x/", AdminRole, None),
      Request("POST", "/x", AdminRole, Some("{}")) }

InitApp ==
    /\ routes = EmptyMap
    /\ middlewares = <<>>
    /\ listening = FALSE
    /\ last = None

InitRouter ==
    /\ router = EmptyMap
    /\ adds = <<>>
    /\ looked = None

ConnIds == 1..NumConns

\* A connection not yet accepted.
NoConn ==
    [pc |-> "none", read_err |-> FALSE, input |-> None, req |-> None,
     res |-> None, log |-> <<>>, sent |-> None, wire |-> None]

InitServer ==
    /\ server = [via |-> "listen_with_handler", running |-> FALSE]
    /\ conns = [c \in ConnIds |-> NoConn]

\* The tasks that use the route table: the lookups of the listen closure and
\* the registrations of get and post.
LookupIds == 1..NumLookups
RegistrationIds == (NumLookups + 1)..(NumLookups + NumRegistrations)
TaskIds == LookupIds \cup RegistrationIds

\* The handler a registration inserts.
HandlerOf(t) == <<"handler", t>>

\* The table the tasks start from: one route registered.
Table0 == insert(EmptyMap, "GET:/x", <<"handler", 0>>)

InitTable ==
    /\ table = Table0
    /\ rwlock = [readers |-> {}, writer |-> None, queue |-> <<>>]
    /\ tasks = [t \in TaskIds |-> [pc |-> "idle", key |-> None, result |-> None]]

InitResponse ==
    /\ response = Response_new
    /\ built = None

\* Nothing was handed to Request::from_raw.
InitParse ==
    /\ composed = None
    /\ octets = <<>>
    /\ parsed = None

(***************************************************************************)
(* Dispatches of the listen closure running beside a call of get and a     *)
(* call of use_middleware, all on the same routes and middlewares.         *)
(***************************************************************************)
NumDispatches == 2

DispatchIds == 1..NumDispatches
GetId == NumDispatches + 1
UseId == NumDispatches + 2
ProcIds == DispatchIds \cup {GetId, UseId}

\* The lock a registration writes: get the routes, use_middleware the list.
LockOf(w) == IF w = GetId THEN "routes" ELSE "middlewares"

Routes0 == insert(EmptyMap, "GET:/x", into_chained_handler(<<"welcome">>))
Middlewares0 == <<into_handler("detailed_logger", MwId(0)), into_handler("cors", MwId(1))>>

NoLock == [readers |-> {}, writer |-> None, queue |-> <<>>]

InitDispatch ==
    /\ arcs = [routes |-> Routes0, middlewares |-> Middlewares0]
    /\ guards = [routes |-> NoLock, middlewares |-> NoLock]
    /\ procs = [p \in ProcIds |->
                   IF p \in DispatchIds
                   THEN [pc |-> "idle", lock |-> "routes", req |-> None,
                         route_handler |-> None, snapshot |-> None, outcome |-> None]
                   ELSE [pc |-> "idle", lock |-> LockOf(p)]]

Init ==
    /\ InitApp /\ InitRouter /\ InitServer /\ InitTable /\ InitResponse /\ InitParse
    /\ InitDispatch

use_middleware(f) ==
    /\ ~listening
    /\ Len(middlewares) < MaxMiddlewares
    /\ middlewares' = Append(middlewares, into_handler(f, MwId(Len(middlewares))))
    /\ UNCHANGED <<routes, listening, last, routerVars, serverVars, tableVars, respVars, parseVars, dispVars>>

get(path, handlers) ==
    /\ ~listening
    /\ routes' = insert(routes, "GET:" \o path, into_chained_handler(handlers))
    /\ UNCHANGED <<middlewares, listening, last, routerVars, serverVars, tableVars, respVars, parseVars, dispVars>>

post(path, handlers) ==
    /\ ~listening
    /\ routes' = insert(routes, "POST:" \o path, into_chained_handler(handlers))
    /\ UNCHANGED <<middlewares, listening, last, routerVars, serverVars, tableVars, respVars, parseVars, dispVars>>

listen ==
    /\ ~listening
    /\ listening' = TRUE
    /\ UNCHANGED <<routes, middlewares, last, routerVars, serverVars, tableVars, respVars, parseVars, dispVars>>

dispatch(req) ==
    /\ listening
    /\ last' = Some(listen_closure(routes, middlewares, req))
    /\ UNCHANGED <<routes, middlewares, listening, routerVars, serverVars, tableVars, respVars, parseVars, dispVars>>

Next ==
    \/ \E f \in MiddlewareFns : use_middleware(f)
    \/ \E path \in RegPaths, handlers \in GetTuples : get(path, handlers)
    \/ \E path \in RegPaths, handlers \in PostTuples : post(path, handlers)
    \/ listen
    \/ \E req \in Requests : dispatch(req)

Spec == Init /\ [][Next]_vars

(***************************************************************************)
(* The application with functions that invoke their continuation no time,  *)
(* once or twice.                                                          *)
(***************************************************************************)
InvokeFns == {"detailed_logger", "role_guard", "invokes_next_twice", "welcome"}
InvokeTuples == SeqsUpTo(InvokeFns, 1, MaxHandlers)

NextInvoke ==
    \/ \E f \in InvokeFns : use_middleware(f)
    \/ \E path \in RegPaths, handlers \in InvokeTuples : get(path, handlers)
    \/ \E path \in RegPaths, handlers \in PostTuples : post(path, handlers)
    \/ listen
    \/ \E req \in Requests : dispatch(req)

SpecInvoke == Init /\ [][NextInvoke]_vars

(***************************************************************************)
(* The same application with paths and request lines that hold a ':'.      *)
(* "GET:/x y HTTP/1.1" is a request line of three tokens: its method token *)
(* is "GET:/x" and its path "y".                                           *)
(***************************************************************************)
KeyPaths == {"/x", "/x:y"}
KeyTuples == {<<"welcome">>, <<"hello">>}
KeyRequests ==
    { Request("GET", "/x", EmptyMap, None),
      Request("GET", "/x:y", EmptyMap, None),
      Request("GET:/x", "y", EmptyMap, None),
      Request("POST", "/x", EmptyMap, Some("{}")),
      Request("PUT", "/x", EmptyMap, None) }

NextKeys ==
    \/ \E f \in {"detailed_logger"} : use_middleware(f)
    \/ \E path \in KeyPaths, handlers \in KeyTuples : get(path, handlers)
    \/ \E path \in KeyPaths, handlers \in PostTuples : post(path, handlers)
    \/ listen
    \/ \E req \in KeyRequests : dispatch(req)

SpecKeys == Init /\ [][NextKeys]_vars

(***************************************************************************)
(* router.rs: Method and Router.                                           *)
(***************************************************************************)
Method ==
    {"Method::GET", "Method::POST", "Method::PUT", "Method::DELETE",
     "Method::PATCH", "Method::HEAD", "Method::OPTIONS"}

as_str(method) ==
    CASE method = "Method::GET" -> "GET"
      [] method = "Method::POST" -> "POST"
      [] method = "Method::PUT" -> "PUT"
      [] method = "Method::DELETE" -> "DELETE"
      [] method = "Method::PATCH" -> "PATCH"
      [] method = "Method::HEAD" -> "HEAD"
      [] method = "Method::OPTIONS" -> "OPTIONS"

\* format!("{}:{}", method.as_str(), path)
\* str::to_uppercase, on the method tokens of the model.
to_uppercase(s) ==
    CASE s = "get" -> "GET"
      [] s = "post" -> "POST"
      [] s = "put" -> "PUT"
      [] OTHER -> s

\* Method::from_str
from_str(s) ==
    LET u == to_uppercase(s)
    IN  CASE u = "GET" -> Some("Method::GET")
          [] u = "POST" -> Some("Method::POST")
          [] u = "PUT" -> Some("Method::PUT")
          [] u = "DELETE" -> Some("Method::DELETE")
          [] u = "PATCH" -> Some("Method::PATCH")
          [] u = "HEAD" -> Some("Method::HEAD")
          [] u = "OPTIONS" -> Some("Method::OPTIONS")
          [] OTHER -> None

add_route_key(method, path) == as_str(method) \o ":" \o path

\* format!("{}:{}", method, path), method being the caller's string
find_handler_key(method, path) == method \o ":" \o path

\* HashMap::insert that keeps an entry already there.
insert_if_absent(map, key, handler) ==
    IF key \in DOMAIN map THEN map ELSE insert(map, key, handler)

routes_insert(map, key, handler) == insert(map, key, handler)

\* A lookup that, finding nothing under the method, takes the path's route
\* under another method.
find_handler_any_method(rts, method, path) ==
    IF find_handler_key(method, path) \in DOMAIN rts
    THEN get_opt(rts, find_handler_key(method, path))
    ELSE IF \E m \in Method : add_route_key(m, path) \in DOMAIN rts
         THEN get_opt(rts, add_route_key(CHOOSE m \in Method :
                                             add_route_key(m, path) \in DOMAIN rts, path))
         ELSE None

find_handler_in(rts, method, path) == get_opt(rts, find_handler_key(method, path))

(***************************************************************************)
(* The Router on its own: registrations and lookups in any order.          *)
(***************************************************************************)
AddMethods == {"Method::GET", "Method::POST"}
AddPaths == {"/x", "/x/"}
AddHandlers == {into_handler("hello", HId(0)), into_handler("welcome", HId(0))}
FindMethods == {"GET", "POST", "PUT", "get"}
FindPaths == {"/x", "/x/", "/X", "/"}

add_route(method, path, handler) ==
    /\ Len(adds) < MaxAddRoute
    /\ router' = routes_insert(router, add_route_key(method, path), handler)
    /\ adds' = Append(adds, [method |-> method, path |-> path, handler |-> handler])
    /\ UNCHANGED <<looked, appVars, serverVars, tableVars, respVars, parseVars, dispVars>>

find_handler(method, path) ==
    /\ looked' = Some([method |-> method, path |-> path,
                       result |-> find_handler_in(router, method, path)])
    /\ UNCHANGED <<router, adds, appVars, serverVars, tableVars, respVars, parseVars, dispVars>>

NextRouter ==
    \/ \E method \in AddMethods, path \in AddPaths, handler \in AddHandlers :
           add_route(method, path, handler)
    \/ \E method \in FindMethods, path \in FindPaths : find_handler(method, path)

SpecRouter == Init /\ [][NextRouter]_vars

(***************************************************************************)
(* What the calls made so far say about a (method, path) pair.             *)
(***************************************************************************)
AddsOf(method, path) ==
    {i \in DOMAIN adds : adds[i].method = method /\ adds[i].path = path}
HandlersAddedFor(method, path) == {adds[i].handler : i \in AddsOf(method, path)}
LatestAdd(method, path) ==
    adds[CHOOSE i \in AddsOf(method, path) : \A j \in AddsOf(method, path) : j <= i]

(***************************************************************************)
(* C7. Exact-match lookup: after any sequence of registrations,            *)
(* find_handler with a method of the enumeration and a path returns a      *)
(* handler registered for exactly that method and path, and none for a     *)
(* pair never registered: a path that differs by a trailing slash, by case *)
(* or by being a prefix finds nothing.                                     *)
(***************************************************************************)
C7_ExactMatch ==
    \A method \in Method, path \in AddPaths \cup FindPaths :
        LET found == find_handler_in(router, as_str(method), path)
        IN  IF AddsOf(method, path) # {}
            THEN found # None /\ found[1] \in HandlersAddedFor(method, path)
            ELSE found = None

\* GET /x is registered; the lookups of GET /x/ found nothing.
C7_Witness ==
    /\ AddsOf("Method::GET", "/x") # {}
    /\ AddsOf("Method::GET", "/x/") = {}
    /\ AddsOf("Method::POST", "/x") # {}
    /\ looked # None
    /\ looked[1].method = "GET"
    /\ looked[1].path = "/x/"
    /\ looked[1].result = None

(***************************************************************************)
(* C8. Last registration wins: a lookup returns the handler of the most    *)
(* recent add_route for its method and path, never an earlier one, and an  *)
(* add_route leaves what every other method and path looks up unchanged.   *)
(***************************************************************************)
LatestWins ==
    \A method \in Method, path \in AddPaths :
        AddsOf(method, path) # {} =>
            find_handler_in(router, as_str(method), path)
                = Some(LatestAdd(method, path).handler)

OthersUnchanged ==
    adds' # adds =>
        LET a == adds'[Len(adds')]
        IN  \A method \in Method, path \in AddPaths \cup FindPaths :
                (method # a.method \/ path # a.path) =>
                    find_handler_in(router', as_str(method), path)
                        = find_handler_in(router, as_str(method), path)

C8_LastRegistrationWins == [] LatestWins /\ [][OthersUnchanged]_vars

\* GET /x was registered twice, with different handlers, beside another route.
C8_Witness ==
    /\ Cardinality(HandlersAddedFor("Method::GET", "/x")) = 2
    /\ AddsOf("Method::POST", "/x") # {}
    /\ LatestAdd("Method::GET", "/x") # adds[Len(adds)]
    /\ looked # None
    /\ looked[1].method = "GET"
    /\ looked[1].path = "/x"
    /\ looked[1].result = Some(LatestAdd("Method::GET", "/x").handler)

(***************************************************************************)
(* C19. Method normalization in lookup: find_handler normalizes the method *)
(* of the request to the enumeration (GET, POST, PUT, DELETE, PATCH, HEAD, *)
(* OPTIONS) before it builds the lookup key, while the path is compared    *)
(* exactly, with no trailing-slash or case normalization.                  *)
(***************************************************************************)
C19_MethodNormalized ==
    \A token \in FindMethods, path \in AddPaths \cup FindPaths :
        LET method == from_str(token)
        IN  method # None =>
                find_handler_in(router, token, path)
                    = get_opt(router, add_route_key(method[1], path))

\* What holds of the code: the key is built of the method as it was given, so
\* a token finds a handler only when it is the very name a route was
\* registered under.
C19_AsCoded ==
    \A token \in FindMethods, path \in AddPaths \cup FindPaths :
        find_handler_in(router, token, path) # None =>
            \E i \in DOMAIN adds :
                as_str(adds[i].method) = token /\ adds[i].path = path

(***************************************************************************)
(* The RwLock of the route table (tokio::sync::RwLock): any number of      *)
(* readers or one writer hold it; those that wait are served first come,   *)
(* first served.  A lookup is routes.read().await, get, and the drop of    *)
(* the guard; a registration is routes.write().await, insert, and the drop *)
(* of the guard.  HashMap::insert is not one step to a reader that would   *)
(* look while it runs: the entry is torn in between.                       *)
(***************************************************************************)
Torn == <<"torn">>
TableKeys == {"GET:/x", "GET:/y"}

\* routes.read().await, called: the lookup waits for the lock.
read_called(t, key) ==
    /\ tasks[t].pc = "idle"
    /\ tasks' = [tasks EXCEPT ![t].pc = "waiting", ![t].key = Some(key)]
    /\ rwlock' = [rwlock EXCEPT !.queue = Append(@, t)]
    /\ UNCHANGED <<table, appVars, routerVars, serverVars, respVars, parseVars, dispVars>>

\* A lock that gives read access while a writer holds it.
read_granted_beside_writer(t) ==
    /\ tasks[t].pc = "waiting"
    /\ t \in LookupIds
    /\ rwlock.queue # <<>> /\ Head(rwlock.queue) = t
    /\ rwlock' = [rwlock EXCEPT !.readers = @ \cup {t}, !.queue = Tail(@)]
    /\ tasks' = [tasks EXCEPT ![t].pc = "locked"]
    /\ UNCHANGED <<table, appVars, routerVars, serverVars, respVars, parseVars, dispVars>>

\* routes.read().await, returned: no writer holds the lock.
read_granted(t) ==
    /\ tasks[t].pc = "waiting"
    /\ t \in LookupIds
    /\ rwlock.queue # <<>> /\ Head(rwlock.queue) = t
    /\ rwlock.writer = None
    /\ rwlock' = [rwlock EXCEPT !.readers = @ \cup {t}, !.queue = Tail(@)]
    /\ tasks' = [tasks EXCEPT ![t].pc = "locked"]
    /\ UNCHANGED <<table, appVars, routerVars, serverVars, respVars, parseVars, dispVars>>

\* routes.get(&key).cloned()
routes_get(t) ==
    /\ tasks[t].pc = "locked"
    /\ t \in LookupIds
    /\ tasks' = [tasks EXCEPT ![t].pc = "got",
                              ![t].result = Some(get_opt(table, tasks[t].key[1]))]
    /\ UNCHANGED <<table, rwlock, appVars, routerVars, serverVars, respVars, parseVars, dispVars>>

\* The read guard is dropped.
read_dropped(t) ==
    /\ tasks[t].pc = "got"
    /\ rwlock' = [rwlock EXCEPT !.readers = @ \ {t}]
    /\ tasks' = [tasks EXCEPT ![t].pc = "done"]
    /\ UNCHANGED <<table, appVars, routerVars, serverVars, respVars, parseVars, dispVars>>

\* routes.write().await, called: the registration waits for the lock.
write_called(t, key) ==
    /\ tasks[t].pc = "idle"
    /\ tasks' = [tasks EXCEPT ![t].pc = "waiting", ![t].key = Some(key)]
    /\ rwlock' = [rwlock EXCEPT !.queue = Append(@, t)]
    /\ UNCHANGED <<table, appVars, routerVars, serverVars, respVars, parseVars, dispVars>>

\* routes.write().await, returned: nobody holds the lock.
write_granted(t) ==
    /\ tasks[t].pc = "waiting"
    /\ t \in RegistrationIds
    /\ rwlock.queue # <<>> /\ Head(rwlock.queue) = t
    /\ rwlock.writer = None /\ rwlock.readers = {}
    /\ rwlock' = [rwlock EXCEPT !.writer = Some(t), !.queue = Tail(@)]
    /\ tasks' = [tasks EXCEPT ![t].pc = "locked"]
    /\ UNCHANGED <<table, appVars, routerVars, serverVars, respVars, parseVars, dispVars>>

\* routes.insert(key, handler), begun.
insert_begins(t) ==
    /\ tasks[t].pc = "locked"
    /\ t \in RegistrationIds
    /\ table' = insert(table, tasks[t].key[1], Torn)
    /\ tasks' = [tasks EXCEPT ![t].pc = "inserting"]
    /\ UNCHANGED <<rwlock, appVars, routerVars, serverVars, respVars, parseVars, dispVars>>

\* routes.insert(key, handler), done.
insert_ends(t) ==
    /\ tasks[t].pc = "inserting"
    /\ table' = insert(table, tasks[t].key[1], HandlerOf(t))
    /\ tasks' = [tasks EXCEPT ![t].pc = "inserted"]
    /\ UNCHANGED <<rwlock, appVars, routerVars, serverVars, respVars, parseVars, dispVars>>

\* The write guard is dropped.
write_dropped(t) ==
    /\ tasks[t].pc = "inserted"
    /\ rwlock' = [rwlock EXCEPT !.writer = None]
    /\ tasks' = [tasks EXCEPT ![t].pc = "done"]
    /\ UNCHANGED <<table, appVars, routerVars, serverVars, respVars, parseVars, dispVars>>

NextTable ==
    \/ \E t \in LookupIds, key \in TableKeys : read_called(t, key)
    \/ \E t \in TaskIds : read_granted(t)
    \/ \E t \in TaskIds : routes_get(t)
    \/ \E t \in TaskIds : read_dropped(t)
    \/ \E t \in RegistrationIds, key \in TableKeys : write_called(t, key)
    \/ \E t \in TaskIds : write_granted(t)
    \/ \E t \in TaskIds : insert_begins(t)
    \/ \E t \in TaskIds : insert_ends(t)
    \/ \E t \in TaskIds : write_dropped(t)

SpecTable == Init /\ [][NextTable]_vars

(***************************************************************************)
(* C14. Shared-table discipline: any number of lookups hold read access to *)
(* the route table at the same time, one lookup never excluding another; a *)
(* registration holds exclusive access; a lookup that interleaves with a   *)
(* registration of the same key returns the value before the registration  *)
(* or the handler newly registered, never anything else.                   *)
(***************************************************************************)
\* A lookup at the head of the queue gets the lock whenever no writer holds
\* it, whoever reads.
ReadersShare ==
    \A t \in LookupIds :
        ( /\ tasks[t].pc = "waiting"
          /\ Head(rwlock.queue) = t
          /\ rwlock.writer = None ) => ENABLED read_granted(t)

WriterExcludes ==
    rwlock.writer # None =>
        /\ rwlock.readers = {}
        /\ \A t \in TaskIds \ {rwlock.writer[1]} :
               tasks[t].pc \notin {"locked", "got", "inserting", "inserted"}

\* What a lookup of the key may return: what the table held at the start, or
\* the handler of a registration of that key.
Admissible(key) ==
    {get_opt(Table0, key)} \cup
    {Some(HandlerOf(r)) : r \in {q \in RegistrationIds :
                                    /\ tasks[q].key = Some(key)
                                    /\ tasks[q].pc \in {"inserting", "inserted", "done"}}}

LookupsAdmissible ==
    \A t \in LookupIds :
        tasks[t].result # None => tasks[t].result[1] \in Admissible(tasks[t].key[1])

C14_SharedTable == ReadersShare /\ WriterExcludes /\ LookupsAdmissible

\* Two lookups hold the lock together while a registration of the key one of
\* them looks up waits, and that lookup has the value from before it.
C14_Witness ==
    /\ \A t \in LookupIds : tasks[t].pc \in {"locked", "got"}
    /\ \E t \in LookupIds, r \in RegistrationIds :
        /\ tasks[t].pc = "got"
        /\ tasks[r].pc = "waiting"
        /\ tasks[r].key = tasks[t].key
        /\ tasks[t].result = Some(get_opt(Table0, tasks[t].key[1]))

(***************************************************************************)
(* app/expresso.rs: the listen closure step by step, beside registrations. *)
(* A dispatch takes routes.read().await inside a block of its own, clones  *)
(* the entry and leaves the block; takes middlewares.read().await for the  *)
(* one statement that clones the list; builds the chain and awaits it.     *)
(* The chain may never return.                                             *)
(***************************************************************************)
DispatchRequests ==
    { Request("GET", "/x", EmptyMap, None), Request("GET", "/y", EmptyMap, None) }

OtherVars == <<appVars, routerVars, serverVars, tableVars, respVars, parseVars>>

\* The closure is called with the request of a connection.
closure_called(p, req) ==
    /\ procs[p].pc = "idle"
    /\ procs' = [procs EXCEPT ![p].pc = "calling", ![p].req = Some(req)]
    /\ UNCHANGED <<arcs, guards, OtherVars>>

\* routes.read().await or middlewares.read().await, called.
lock_read_called(p) ==
    /\ procs[p].pc = "calling"
    /\ guards' = [guards EXCEPT ![procs[p].lock].queue = Append(@, p)]
    /\ procs' = [procs EXCEPT ![p].pc = "waiting"]
    /\ UNCHANGED <<arcs, OtherVars>>

\* ... returned: no writer holds the lock.
lock_read_granted(p) ==
    /\ p \in DispatchIds
    /\ procs[p].pc = "waiting"
    /\ LET l == procs[p].lock
       IN  /\ guards[l].queue # <<>> /\ Head(guards[l].queue) = p
           /\ guards[l].writer = None
           /\ guards' = [guards EXCEPT ![l].readers = @ \cup {p}, ![l].queue = Tail(@)]
    /\ procs' = [procs EXCEPT ![p].pc = "locked"]
    /\ UNCHANGED <<arcs, OtherVars>>

\* routes.get(&key).cloned(), or the clone() of the list.
lock_cloned(p) ==
    /\ p \in DispatchIds
    /\ procs[p].pc = "locked"
    /\ procs' = IF procs[p].lock = "routes"
                THEN [procs EXCEPT ![p].pc = "cloned",
                                   ![p].route_handler =
                                       Some(get_opt(arcs.routes, route_key(procs[p].req[1])))]
                ELSE [procs EXCEPT ![p].pc = "cloned",
                                   ![p].snapshot = Some(arcs.middlewares)]
    /\ UNCHANGED <<arcs, guards, OtherVars>>

\* A closure that keeps the guard of the routes to its end.
lock_guard_kept(p) ==
    /\ procs[p].pc = "cloned"
    /\ guards' = IF procs[p].lock = "routes"
                 THEN guards
                 ELSE [guards EXCEPT ![procs[p].lock].readers = @ \ {p}]
    /\ procs' = IF procs[p].lock = "routes"
                THEN [procs EXCEPT ![p].pc = "calling", ![p].lock = "middlewares"]
                ELSE [procs EXCEPT ![p].pc = "built"]
    /\ UNCHANGED <<arcs, OtherVars>>

\* The guard is dropped: at the end of the block, at the end of the statement.
lock_guard_dropped(p) ==
    /\ procs[p].pc = "cloned"
    /\ guards' = [guards EXCEPT ![procs[p].lock].readers = @ \ {p}]
    /\ procs' = IF procs[p].lock = "routes"
                THEN [procs EXCEPT ![p].pc = "calling", ![p].lock = "middlewares"]
                ELSE [procs EXCEPT ![p].pc = "built"]
    /\ UNCHANGED <<arcs, OtherVars>>

\* The chain is folded of the clone and called.
chain_called(p) ==
    /\ procs[p].pc = "built"
    /\ procs' = [procs EXCEPT ![p].pc = "running"]
    /\ UNCHANGED <<arcs, guards, OtherVars>>

\* A chain folded of the list as it is when the chain ends.
chain_returned_of_list(p) ==
    /\ procs[p].pc = "running"
    /\ LET chain == build_chain(arcs.middlewares,
                                final_handler_of(procs[p].route_handler[1]))
           r == CallHandler(chain, procs[p].req[1], Response_new, FallbackNext)
       IN  procs' = [procs EXCEPT ![p].pc = "finished", ![p].outcome = Some(r)]
    /\ UNCHANGED <<arcs, guards, OtherVars>>

\* The chain returns its Response.
chain_returned(p) ==
    /\ procs[p].pc = "running"
    /\ LET chain == build_chain(procs[p].snapshot[1],
                                final_handler_of(procs[p].route_handler[1]))
           r == CallHandler(chain, procs[p].req[1], Response_new, FallbackNext)
       IN  procs' = [procs EXCEPT ![p].pc = "finished", ![p].outcome = Some(r)]
    /\ UNCHANGED <<arcs, guards, OtherVars>>

\* routes.write().await of get, middlewares.write().await of use_middleware.
lock_write_called(w) ==
    /\ procs[w].pc = "idle"
    /\ guards' = [guards EXCEPT ![procs[w].lock].queue = Append(@, w)]
    /\ procs' = [procs EXCEPT ![w].pc = "waiting"]
    /\ UNCHANGED <<arcs, OtherVars>>

\* ... returned: nobody holds the lock.
lock_write_granted(w) ==
    /\ w \notin DispatchIds
    /\ procs[w].pc = "waiting"
    /\ LET l == procs[w].lock
       IN  /\ guards[l].queue # <<>> /\ Head(guards[l].queue) = w
           /\ guards[l].writer = None /\ guards[l].readers = {}
           /\ guards' = [guards EXCEPT ![l].writer = Some(w), ![l].queue = Tail(@)]
    /\ procs' = [procs EXCEPT ![w].pc = "locked"]
    /\ UNCHANGED <<arcs, OtherVars>>

\* routes.insert(key, handler) of get; middlewares.push(handler) of
\* use_middleware.
registered(w) ==
    /\ w \notin DispatchIds
    /\ procs[w].pc = "locked"
    /\ arcs' = IF w = GetId
               THEN [arcs EXCEPT !.routes =
                         insert(@, "GET:" \o "/y", into_chained_handler(<<"hello">>))]
               ELSE [arcs EXCEPT !.middlewares =
                         Append(@, into_handler("auth", MwId(Len(@))))]
    /\ procs' = [procs EXCEPT ![w].pc = "stored"]
    /\ UNCHANGED <<guards, OtherVars>>

\* The write guard is dropped.
lock_write_dropped(w) ==
    /\ procs[w].pc = "stored"
    /\ guards' = [guards EXCEPT ![procs[w].lock].writer = None]
    /\ procs' = [procs EXCEPT ![w].pc = "done"]
    /\ UNCHANGED <<arcs, OtherVars>>

NextDispatch ==
    \/ \E p \in DispatchIds, req \in DispatchRequests : closure_called(p, req)
    \/ \E p \in DispatchIds : lock_read_called(p)
    \/ \E p \in ProcIds : lock_read_granted(p)
    \/ \E p \in ProcIds : lock_cloned(p)
    \/ \E p \in DispatchIds : lock_guard_dropped(p)
    \/ \E p \in DispatchIds : chain_called(p)
    \/ \E p \in DispatchIds : chain_returned(p)
    \/ \E w \in {GetId, UseId} : lock_write_called(w)
    \/ \E w \in ProcIds : lock_write_granted(w)
    \/ \E w \in ProcIds : registered(w)
    \/ \E w \in {GetId, UseId} : lock_write_dropped(w)

SpecDispatch == Init /\ [][NextDispatch]_vars

(***************************************************************************)
(* C27. No lock is held while handlers run: the dispatch has released the  *)
(* read lock of the route table and the read lock of the middleware list   *)
(* before the chain starts, so a chain that never returns holds nothing    *)
(* and waits for nothing: whoever holds a lock is at a step of its own     *)
(* that it can take, and a registration or a lookup first in line is       *)
(* granted the lock as soon as those steps are done.                       *)
(***************************************************************************)
LockNames == {"routes", "middlewares"}

Holders(l) ==
    guards[l].readers \cup (IF guards[l].writer = None THEN {} ELSE {guards[l].writer[1]})

InQueue(l) == {guards[l].queue[i] : i \in DOMAIN guards[l].queue}

InChain(p) == p \in DispatchIds /\ procs[p].pc \in {"built", "running", "finished"}

HoldsNothing(p) ==
    \A l \in LockNames : p \notin Holders(l) /\ p \notin InQueue(l)

\* Every holder of a lock is about to clone, store or drop, whatever the
\* others do.
HoldersMoveOn ==
    \A l \in LockNames : \A q \in Holders(l) :
        /\ procs[q].pc \in {"locked", "cloned", "stored"}
        /\ ENABLED (lock_cloned(q) \/ lock_guard_dropped(q)
                        \/ registered(q) \/ lock_write_dropped(q))

\* With no holder, the first in line is granted the lock, chains running or
\* not.
FirstInLineServed ==
    \A l \in LockNames :
        (Holders(l) = {} /\ guards[l].queue # <<>>) =>
            LET q == Head(guards[l].queue)
            IN  ENABLED (lock_read_granted(q) \/ lock_write_granted(q))

C27_NoLockWhileRunning ==
    /\ \A p \in DispatchIds : InChain(p) => HoldsNothing(p)
    /\ HoldersMoveOn
    /\ FirstInLineServed

\* The chain of one dispatch has not returned; meanwhile both registrations
\* were done and the other dispatch ran on what they registered.
C27_Witness ==
    /\ procs[1].pc = "running"
    /\ Len(procs[1].snapshot[1]) = Len(Middlewares0)
    /\ procs[GetId].pc = "done" /\ procs[UseId].pc = "done"
    /\ procs[2].pc = "finished"
    /\ procs[2].req = Some(Request("GET", "/y", EmptyMap, None))
    /\ procs[2].route_handler[1] # None
    /\ Len(procs[2].snapshot[1]) = Len(Middlewares0) + 1

(***************************************************************************)
(* C28. Dispatch uses a snapshot of the middleware list: the global        *)
(* middlewares executed for a request are exactly the contents of the      *)
(* list, in order, at the moment the dispatch read it; a middleware        *)
(* registered after that moment is not executed for the request, and no    *)
(* registration makes a listed middleware be skipped, reordered or run     *)
(* twice.                                                                  *)
(***************************************************************************)
RECURSIVE MiddlewaresCalled(_)
MiddlewaresCalled(log) ==
    IF log = <<>> THEN <<>>
    ELSE (IF Head(log).ev = "call" /\ Head(log).id[1] = "m"
          THEN <<Head(log).id>> ELSE <<>>) \o MiddlewaresCalled(Tail(log))

IdsOf(mws) == [i \in 1..Len(mws) |-> mws[i].id]

\* The clone is the list at the moment of the clone, and stays what it is.
SnapshotTaken ==
    \A p \in DispatchIds :
        /\ (procs[p].pc = "locked" /\ procs'[p].pc = "cloned"
                /\ procs[p].lock = "middlewares") =>
               procs'[p].snapshot = Some(arcs.middlewares)
        /\ procs[p].snapshot # None => procs'[p].snapshot = procs[p].snapshot

RanSnapshot ==
    \A p \in DispatchIds :
        procs[p].pc = "finished" =>
            MiddlewaresCalled(procs[p].outcome[1].log) = IdsOf(procs[p].snapshot[1])

C28_MiddlewareSnapshot == []RanSnapshot /\ [][SnapshotTaken]_vars

\* A dispatch finished on the two middlewares it read although a third was
\* registered before its chain ended.
C28_Witness ==
    \E p \in DispatchIds :
        /\ procs[p].pc = "finished"
        /\ Len(procs[p].snapshot[1]) = 2
        /\ Len(arcs.middlewares) = 3
        /\ procs[UseId].pc = "done"

(***************************************************************************)
(* http/request.rs: Request::from_raw.  The bytes read are a sequence of   *)
(* pieces: the separators "\r\n", " ", ":" and pieces of text that hold    *)
(* none of them.                                                           *)
(***************************************************************************)
CRLF == "\r\n"
IsWhitespace(piece) == piece \in {" ", "\t", "\n", "\r", CRLF}

RECURSIVE concat(_)
concat(pieces) ==
    IF pieces = <<>> THEN "" ELSE Head(pieces) \o concat(Tail(pieces))

\* str::split("\r\n"): the pieces between the separators, at least one.
RECURSIVE split_crlf(_)
split_crlf(buf) ==
    IF \E i \in DOMAIN buf : buf[i] = CRLF
    THEN LET i == CHOOSE i \in DOMAIN buf :
                      buf[i] = CRLF /\ \A j \in 1..(i - 1) : buf[j] # CRLF
         IN  <<SubSeq(buf, 1, i - 1)>> \o split_crlf(SubSeq(buf, i + 1, Len(buf)))
    ELSE <<buf>>

\* str::split_whitespace: the maximal runs of text that hold no whitespace.
RECURSIVE split_whitespace(_)
split_whitespace(line) ==
    IF line = <<>>
    THEN <<>>
    ELSE IF IsWhitespace(Head(line))
         THEN split_whitespace(Tail(line))
         ELSE LET stops == {i \in DOMAIN line : IsWhitespace(line[i])}
                  end == IF stops = {}
                         THEN Len(line) + 1
                         ELSE CHOOSE i \in stops : \A j \in stops : i <= j
              IN  <<concat(SubSeq(line, 1, end - 1))>>
                      \o split_whitespace(SubSeq(line, end, Len(line)))

\* str::split_once(": "): around the first ": ", or none.
split_once(line) ==
    LET at == {i \in 1..(Len(line) - 1) : line[i] = ":" /\ line[i + 1] = " "}
    IN  IF at = {}
        THEN None
        ELSE LET i == CHOOSE i \in at : \A j \in at : i <= j
             IN  Some(<<concat(SubSeq(line, 1, i - 1)),
                        concat(SubSeq(line, i + 2, Len(line)))>>)

\* The header loop: up to the first empty line; a line without ": " is skipped.
RECURSIVE parse_headers(_, _, _)
parse_headers(lines, i, headers) ==
    IF i > Len(lines) \/ lines[i] = <<>>
    THEN [headers |-> headers, next |-> i + 1]
    ELSE LET kv == split_once(lines[i])
         IN  parse_headers(lines, i + 1,
                           IF kv # None THEN insert(headers, kv[1][1], kv[1][2])
                           ELSE headers)

\* Vec::join("\r\n") of the lines from index i on.
RECURSIVE join_crlf(_, _)
join_crlf(lines, i) ==
    IF i > Len(lines) THEN ""
    ELSE IF i = Len(lines) THEN concat(lines[i])
    ELSE concat(lines[i]) \o CRLF \o join_crlf(lines, i + 1)

\* A byte that is no UTF-8, and U+FFFD REPLACEMENT CHARACTER.
InvalidByte == "<FF>"
Replacement == "<U+FFFD>"

\* String::from_utf8_lossy: every invalid byte becomes U+FFFD.
from_utf8_lossy(buffer) ==
    [i \in DOMAIN buffer |-> IF buffer[i] = InvalidByte THEN Replacement ELSE buffer[i]]

from_raw(buffer) ==
    LET request_str == from_utf8_lossy(buffer)
        lines == split_crlf(request_str)
        parts == split_whitespace(lines[1])
    IN  IF Len(parts) < 3
        THEN None
        ELSE LET h == parse_headers(lines, 2, EmptyMap)
                 body == join_crlf(lines, h.next)
             IN  Some([method |-> parts[1], path |-> parts[2], version |-> parts[3],
                       headers |-> h.headers,
                       body |-> IF body = "" THEN None ELSE Some(body)])

(***************************************************************************)
(* Requests put on the wire: a request line, header lines and an end, each *)
(* with what it is to a reader of HTTP: the tokens of the line, the key    *)
(* and value of a header line (none for a malformed one), the bytes of the *)
(* body.                                                                   *)
(***************************************************************************)
MaxHeaderLines == 2

RequestLineCases ==
    { [text |-> <<"GET", " ", "/x", " ", "HTTP/1.1">>,
       tokens |-> <<"GET", "/x", "HTTP/1.1">>],
      [text |-> <<" ", "POST", " ", " ", "/x", "\t", "HTTP/1.1", " ", "extra">>,
       tokens |-> <<"POST", "/x", "HTTP/1.1", "extra">>],
      [text |-> <<"GET", " ", "/x">>, tokens |-> <<"GET", "/x">>],
      [text |-> <<"GET">>, tokens |-> <<"GET">>],
      [text |-> <<>>, tokens |-> <<>>] }

HeaderLineCases ==
    { [text |-> <<"Host", ":", " ", "x">>, kv |-> Some(<<"Host", "x">>)],
      [text |-> <<"Host", ":", " ", "y">>, kv |-> Some(<<"Host", "y">>)],
      [text |-> <<"X-Id", ":", " ", "7">>, kv |-> Some(<<"X-Id", "7">>)],
      [text |-> <<"a", ":", " ", "b", ":", " ", "c">>, kv |-> Some(<<"a", "b: c">>)],
      [text |-> <<"K", ":", "v">>, kv |-> None],
      [text |-> <<"bad">>, kv |-> None] }

\* No end at all, the end of the last line only, the empty line, and the
\* empty line with a body after it.
EndCases ==
    { [text |-> <<>>, body |-> <<>>],
      [text |-> <<CRLF>>, body |-> <<>>],
      [text |-> <<CRLF, CRLF>>, body |-> <<>>],
      [text |-> <<CRLF, CRLF, "hi">>, body |-> <<"hi">>],
      [text |-> <<CRLF, CRLF, "a", CRLF, "b", CRLF>>, body |-> <<"a", CRLF, "b", CRLF>>],
      [text |-> <<CRLF, CRLF, CRLF, "K", ":", " ", "v">>, body |-> <<CRLF, "K", ":", " ", "v">>],
      [text |-> <<CRLF, CRLF, "a", InvalidByte>>, body |-> <<"a", InvalidByte>>] }

ComposedRequests ==
    [line : RequestLineCases,
     headers : SeqsUpTo(HeaderLineCases, 0, MaxHeaderLines),
     end : EndCases]

RECURSIVE header_bytes(_)
header_bytes(hs) ==
    IF hs = <<>> THEN <<>> ELSE <<CRLF>> \o Head(hs).text \o header_bytes(Tail(hs))

bytes_of(c) == c.line.text \o header_bytes(c.headers) \o c.end.text

\* A client puts a request on the wire.
receive(c) ==
    /\ composed = None
    /\ composed' = Some(c)
    /\ octets' = bytes_of(c)
    /\ UNCHANGED <<parsed, appVars, routerVars, serverVars, tableVars, respVars, dispVars>>

Request_from_raw ==
    /\ composed # None
    /\ parsed = None
    /\ parsed' = Some(from_raw(octets))
    /\ UNCHANGED <<composed, octets, appVars, routerVars, serverVars, tableVars, respVars, dispVars>>

NextParse ==
    \/ \E c \in ComposedRequests : receive(c)
    \/ Request_from_raw

SpecParse == Init /\ [][NextParse]_vars

(***************************************************************************)
(* C23. Request parsing: from_raw returns none exactly when the first line *)
(* has fewer than three whitespace-separated tokens; otherwise it returns  *)
(* a Request whose method, path and version are the first three tokens,    *)
(* whose headers are exactly the well-formed "Key: Value" lines before the *)
(* first empty line (malformed lines skipped, a later duplicate key        *)
(* replacing an earlier one), and whose body is all bytes after that empty *)
(* line, or none if there are none.                                        *)
(***************************************************************************)
RECURSIVE HeadersOf(_, _)
HeadersOf(hs, map) ==
    IF hs = <<>> THEN map
    ELSE HeadersOf(Tail(hs),
                   IF Head(hs).kv # None
                   THEN insert(map, Head(hs).kv[1][1], Head(hs).kv[1][2])
                   ELSE map)

Parsed(c, body) ==
    IF Len(c.line.tokens) < 3
    THEN None
    ELSE Some([method |-> c.line.tokens[1], path |-> c.line.tokens[2],
               version |-> c.line.tokens[3],
               headers |-> HeadersOf(c.headers, EmptyMap),
               body |-> IF body = <<>> THEN None ELSE Some(concat(body))])

C23_RequestParsing ==
    parsed # None => parsed[1] = Parsed(composed[1], composed[1].end.body)

\* What the code does: the body is the text the bytes decode to, an invalid
\* byte read as U+FFFD.
C23_AsCoded ==
    parsed # None => parsed[1] = Parsed(composed[1], from_utf8_lossy(composed[1].end.body))

(***************************************************************************)
(* http/response.rs: Response::build.  The headers are written in the      *)
(* HashMap's iteration order, which is any order of its keys.              *)
(***************************************************************************)
Orders(keys) ==
    {order \in [1..Cardinality(keys) -> keys] :
        \A i, j \in 1..Cardinality(keys) : order[i] = order[j] => i = j}

RECURSIVE header_lines(_, _, _)
header_lines(headers, order, i) ==
    IF i > Len(order) THEN ""
    ELSE order[i] \o ": " \o headers[order[i]] \o CRLF
             \o header_lines(headers, order, i + 1)

\* A build that counts the empty line into the length.
build_counts_separator(res, order) ==
    LET body_str == IF res.body = None THEN "" ELSE res.body[1]
        content_length == Len(body_str) + Len(CRLF)
    IN  "HTTP/1.1 " \o ToString(res.status_code) \o " " \o res.status_text \o CRLF
            \o "Content-Length: " \o ToString(content_length) \o CRLF
            \o header_lines(res.headers, order, 1) \o CRLF \o body_str

build(res, order) ==
    LET body_str == IF res.body = None THEN "" ELSE res.body[1]
        content_length == Len(body_str)
    IN  "HTTP/1.1 " \o ToString(res.status_code) \o " " \o res.status_text \o CRLF
            \o "Content-Length: " \o ToString(content_length) \o CRLF
            \o header_lines(res.headers, order, 1) \o CRLF \o body_str

(***************************************************************************)
(* http/response.rs: a Response made by Response::new and changed through  *)
(* its public operations, and what build returns for it.                   *)
(***************************************************************************)
Codes == {200, 201, 204, 400, 401, 403, 404, 418, 500}
HeaderNames == {"Content-Type", "X-Id"}
HeaderValues == {"text/plain", "7"}
Bodies == {"", "hi", "{\"a\":1}"}

Response_status(code) ==
    /\ response' = status(response, code)
    /\ built' = None
    /\ UNCHANGED <<appVars, routerVars, serverVars, tableVars, parseVars, dispVars>>

Response_set_header(key, value) ==
    /\ response' = set_header(response, key, value)
    /\ built' = None
    /\ UNCHANGED <<appVars, routerVars, serverVars, tableVars, parseVars, dispVars>>

Response_send(body) ==
    /\ response' = send(response, body)
    /\ built' = None
    /\ UNCHANGED <<appVars, routerVars, serverVars, tableVars, parseVars, dispVars>>

Response_json(data) ==
    /\ response' = json(response, data)
    /\ built' = None
    /\ UNCHANGED <<appVars, routerVars, serverVars, tableVars, parseVars, dispVars>>

Response_build ==
    /\ \E order \in Orders(DOMAIN response.headers) :
           built' = Some(build(response, order))
    /\ UNCHANGED <<response, appVars, routerVars, serverVars, tableVars, parseVars, dispVars>>

NextResponse ==
    \/ \E code \in Codes : Response_status(code)
    \/ \E key \in HeaderNames, value \in HeaderValues : Response_set_header(key, value)
    \/ \E body \in Bodies : Response_send(body)
    \/ \E data \in Bodies : Response_json(data)
    \/ Response_build

SpecResponse == Init /\ [][NextResponse]_vars

(***************************************************************************)
(* C15. Status reason table: for every Response built through the public   *)
(* operations the reason phrase is the table lookup of its status code:    *)
(* 200 OK, 201 Created, 204 No Content, 400 Bad Request, 401 Unauthorized, *)
(* 403 Forbidden, 404 Not Found, 500 Internal Server Error, and "Unknown"  *)
(* for every other code; the status text always matches the status code.   *)
(***************************************************************************)
ReasonTable(code) ==
    CASE code = 200 -> "OK"
      [] code = 201 -> "Created"
      [] code = 204 -> "No Content"
      [] code = 400 -> "Bad Request"
      [] code = 401 -> "Unauthorized"
      [] code = 403 -> "Forbidden"
      [] code = 404 -> "Not Found"
      [] code = 500 -> "Internal Server Error"
      [] OTHER -> "Unknown"

C15_StatusReasonTable == response.status_text = ReasonTable(response.status_code)

\* What holds of the code: the text is the lookup in the table of the code,
\* which has no entry for 204, 401 and 403.
C15_AsCoded == response.status_text = status_text_of(response.status_code)

(***************************************************************************)
(* C16. Serialization: the bytes build returns are the status line, a      *)
(* Content-Length line whose value is the length of the body in bytes (0   *)
(* when there is no body), every header of the Response exactly once, an   *)
(* empty line, and the body.                                               *)
(***************************************************************************)
\* The bodies of the model are ASCII: a character is a byte.
ByteLength(body) == IF body = None THEN 0 ELSE Len(body[1])

Serialized(res, order) ==
    concat(<< "HTTP/1.1 ", ToString(res.status_code), " ", res.status_text, CRLF,
              "Content-Length: ", ToString(ByteLength(res.body)), CRLF >>)
        \o concat([i \in 1..Len(order) |->
                       order[i] \o ": " \o res.headers[order[i]] \o CRLF])
        \o CRLF
        \o (IF res.body = None THEN "" ELSE res.body[1])

\* Every key of the headers at one position of the order, and only once.
EachOnce(order, keys) ==
    /\ Len(order) = Cardinality(keys)
    /\ \A k \in keys : Cardinality({i \in 1..Len(order) : order[i] = k}) = 1

C16_Serialization ==
    built # None =>
        \E order \in [1..Cardinality(DOMAIN response.headers) -> DOMAIN response.headers] :
            /\ EachOnce(order, DOMAIN response.headers)
            /\ built[1] = Serialized(response, order)

\* A Response of two headers and no body was built.
C16_Witness ==
    /\ built # None
    /\ response.body = None
    /\ Cardinality(DOMAIN response.headers) = 2

(***************************************************************************)
(* server/listener.rs.  Server::listen serves every connection with        *)
(* handle_connection, which answers by itself; Server::listen_with_handler *)
(* serves it with the handler it is given, which Expresso::listen makes    *)
(* its closure.  Either loop accepts a connection, spawns a task for it    *)
(* and accepts again; it ends when accept fails.                           *)
(***************************************************************************)
BadRequest == "HTTP/1.1 400 Bad Request\r\nContent-Length: 0\r\n\r\n"

\* The Response handle_connection makes for a parsed request.
received(req) ==
    send(set_header(status(Response_new, 200), "Content-Type", "text/plain"),
         "Received " \o req.method \o " request for " \o req.path)

\* The application main.rs sets up before it listens.
MainMiddlewares ==
    << into_handler("detailed_logger", MwId(0)),
       into_handler("cors", MwId(1)),
       into_handler("auth", MwId(2)) >>

MainRoutes ==
    insert(insert(insert(EmptyMap,
        "GET:" \o "/hello", into_chained_handler(<<"hello">>)),
        "GET:" \o "/protected", into_chained_handler(<<"role_guard", "welcome">>)),
        "POST:" \o "/submit", into_chained_handler(<<"submit">>))

RawInputs ==
    { <<"GET", " ", "/hello", " ", "HTTP/1.1", CRLF, "Host", ":", " ", "x", CRLF, CRLF>>,
      <<"GET", " ", "/protected", " ", "HTTP/1.1", CRLF,
        "X-User-Role", ":", " ", "admin", CRLF, CRLF>>,
      <<"GET", " ", "/protected", " ", "HTTP/1.1", CRLF, CRLF>>,
      <<"GET", " ", "/hello">>,
      <<CRLF, "Host", ":", " ", "x", CRLF, CRLF>> }

InitListener ==
    /\ routes = MainRoutes
    /\ middlewares = MainMiddlewares
    /\ listening = TRUE
    /\ last = None
    /\ InitRouter
    /\ server \in {[via |-> via, running |-> TRUE] :
                      via \in {"listen", "listen_with_handler"}}
    /\ conns = [c \in ConnIds |-> NoConn]
    /\ InitTable
    /\ InitResponse
    /\ InitParse
    /\ InitDispatch

\* A loop that awaits the task of a connection before it accepts the next.
accept_after_task(c) ==
    /\ server.running
    /\ conns[c].pc = "none"
    /\ \A b \in 1..(c - 1) : conns[b].pc = "closed"
    /\ conns' = [conns EXCEPT ![c].pc = "reading"]
    /\ UNCHANGED <<server, appVars, routerVars, tableVars, respVars, parseVars, dispVars>>

\* listener.accept().await: Ok, and the task is spawned.
accept(c) ==
    /\ server.running
    /\ conns[c].pc = "none"
    /\ \A b \in 1..(c - 1) : conns[b].pc # "none"
    /\ conns' = [conns EXCEPT ![c].pc = "reading"]
    /\ UNCHANGED <<server, appVars, routerVars, tableVars, respVars, parseVars, dispVars>>

\* listener.accept().await?: Err, and the loop returns it.
accept_fails ==
    /\ server.running
    /\ server' = [server EXCEPT !.running = FALSE]
    /\ UNCHANGED <<conns, appVars, routerVars, tableVars, respVars, parseVars, dispVars>>

\* stream.read(..).await: Err.  The task ends, the stream is dropped.
read_fails(c) ==
    /\ conns[c].pc = "reading"
    /\ conns' = [conns EXCEPT ![c].pc = "closed", ![c].read_err = TRUE]
    /\ UNCHANGED <<server, appVars, routerVars, tableVars, respVars, parseVars, dispVars>>

\* A read that does not tell zero bytes from bytes that do not parse.
handle_connection_read_unchecked(c, bytes) ==
    /\ server.via = "listen"
    /\ conns[c].pc = "reading"
    /\ conns' =
         [conns EXCEPT ![c] =
            LET req == from_raw(bytes)
            IN  IF req # None
                THEN [@ EXCEPT !.pc = "writing", !.input = Some(bytes),
                               !.req = req, !.res = Some(received(req[1]))]
                ELSE [@ EXCEPT !.pc = "writing", !.input = Some(bytes)]]
    /\ UNCHANGED <<server, appVars, routerVars, tableVars, respVars, parseVars, dispVars>>

\* handle_connection: the read, and the parse that follows it.
handle_connection_read(c, bytes) ==
    /\ server.via = "listen"
    /\ conns[c].pc = "reading"
    /\ conns' =
         [conns EXCEPT ![c] =
            IF Len(bytes) = 0
            THEN [@ EXCEPT !.pc = "closed", !.input = Some(bytes)]
            ELSE LET req == from_raw(bytes)
                 IN  IF req # None
                     THEN [@ EXCEPT !.pc = "writing", !.input = Some(bytes),
                                    !.req = req, !.res = Some(received(req[1]))]
                     ELSE [@ EXCEPT !.pc = "writing", !.input = Some(bytes)]]
    /\ UNCHANGED <<server, appVars, routerVars, tableVars, respVars, parseVars, dispVars>>

\* The keys of the Response a connection is about to write.
HeaderKeys(c) == IF conns[c].res # None THEN DOMAIN conns[c].res[1].headers ELSE {}

\* handle_connection: stream.write_all(..).await?, of the Response built or
\* of the fixed 400.
handle_connection_write(c, ok) ==
    /\ server.via = "listen"
    /\ conns[c].pc = "writing"
    /\ \E order \in Orders(HeaderKeys(c)) :
         LET bytes == IF conns[c].res # None
                      THEN build(conns[c].res[1], order)
                      ELSE BadRequest
         IN  conns' = [conns EXCEPT ![c].pc = "closed",
                                  ![c].sent = Some(bytes),
                                  ![c].wire = IF ok THEN Some(bytes) ELSE None]
    /\ UNCHANGED <<server, appVars, routerVars, tableVars, respVars, parseVars, dispVars>>

\* The task of listen_with_handler: the read, and the parse that follows it.
\* Bytes that do not parse end the task.
task_read(c, bytes) ==
    /\ server.via = "listen_with_handler"
    /\ conns[c].pc = "reading"
    /\ conns' =
         [conns EXCEPT ![c] =
            IF Len(bytes) = 0
            THEN [@ EXCEPT !.pc = "closed", !.input = Some(bytes)]
            ELSE LET req == from_raw(bytes)
                 IN  IF req # None
                     THEN [@ EXCEPT !.pc = "dispatching", !.input = Some(bytes),
                                    !.req = req]
                     ELSE [@ EXCEPT !.pc = "closed", !.input = Some(bytes)]]
    /\ UNCHANGED <<server, appVars, routerVars, tableVars, respVars, parseVars, dispVars>>

\* The task of listen_with_handler: handler(req).await.
task_handle(c) ==
    /\ server.via = "listen_with_handler"
    /\ conns[c].pc = "dispatching"
    /\ LET r == listen_closure(routes, middlewares, conns[c].req[1])
       IN  conns' = [conns EXCEPT ![c].pc = "writing",
                                  ![c].res = Some(r.res),
                                  ![c].log = r.log]
    /\ UNCHANGED <<server, appVars, routerVars, tableVars, respVars, parseVars, dispVars>>

\* A write whose error is returned to the accept loop.
task_write_escalates(c, ok) ==
    /\ server.via = "listen_with_handler"
    /\ conns[c].pc = "writing"
    /\ \E order \in Orders(HeaderKeys(c)) :
         LET bytes == build(conns[c].res[1], order)
         IN  conns' = [conns EXCEPT ![c].pc = "closed",
                                  ![c].sent = Some(bytes),
                                  ![c].wire = IF ok THEN Some(bytes) ELSE None]
    /\ server' = [server EXCEPT !.running = ok]
    /\ UNCHANGED <<appVars, routerVars, tableVars, respVars, parseVars, dispVars>>

\* A write that is tried again when it fails.
task_write_retries(c, ok) ==
    /\ server.via = "listen_with_handler"
    /\ conns[c].pc = "writing"
    /\ \E order \in Orders(HeaderKeys(c)) :
         LET bytes == build(conns[c].res[1], order)
         IN  conns' = [conns EXCEPT ![c].pc = IF ok THEN "closed" ELSE "writing",
                                  ![c].sent = Some(bytes),
                                  ![c].wire = IF ok THEN Some(bytes) ELSE None]
    /\ UNCHANGED <<server, appVars, routerVars, tableVars, respVars, parseVars, dispVars>>

\* The task of listen_with_handler: let _ = stream.write_all(res.build()).await.
task_write(c, ok) ==
    /\ server.via = "listen_with_handler"
    /\ conns[c].pc = "writing"
    /\ \E order \in Orders(HeaderKeys(c)) :
         LET bytes == build(conns[c].res[1], order)
         IN  conns' = [conns EXCEPT ![c].pc = "closed",
                                  ![c].sent = Some(bytes),
                                  ![c].wire = IF ok THEN Some(bytes) ELSE None]
    /\ UNCHANGED <<server, appVars, routerVars, tableVars, respVars, parseVars, dispVars>>

\* An await of the task that never completes: a read that stalls, a handler
\* that never returns, a write the peer never takes.
stalls(c) ==
    /\ conns[c].pc \in {"reading", "dispatching", "writing"}
    /\ conns' = [conns EXCEPT ![c].pc = "stalled"]
    /\ UNCHANGED <<server, appVars, routerVars, tableVars, respVars, parseVars, dispVars>>

NextListener ==
    \/ \E c \in ConnIds : accept(c)
    \/ accept_fails
    \/ \E c \in ConnIds : read_fails(c)
    \/ \E c \in ConnIds, bytes \in RawInputs \cup {<<>>} : handle_connection_read(c, bytes)
    \/ \E c \in ConnIds, ok \in BOOLEAN : handle_connection_write(c, ok)
    \/ \E c \in ConnIds, bytes \in RawInputs \cup {<<>>} : task_read(c, bytes)
    \/ \E c \in ConnIds : task_handle(c)
    \/ \E c \in ConnIds, ok \in BOOLEAN : task_write(c, ok)
    \/ \E c \in ConnIds : stalls(c)

SpecListener == InitListener /\ [][NextListener]_vars

\* The outcome of the closure for every request the listener can parse,
\* computed once for the tables of main.
ParsedInputs == {from_raw(bytes)[1] : bytes \in {b \in RawInputs : from_raw(b) # None}}
ClosureOutcome ==
    [req \in ParsedInputs |-> listen_closure(MainRoutes, MainMiddlewares, req)]

\* task_handle, the outcome read from the table.
task_handle_tabled(c) ==
    /\ server.via = "listen_with_handler"
    /\ conns[c].pc = "dispatching"
    /\ routes = MainRoutes /\ middlewares = MainMiddlewares
    /\ conns[c].req[1] \in ParsedInputs
    /\ conns' = [conns EXCEPT ![c].pc = "writing",
                              ![c].res = Some(ClosureOutcome[conns[c].req[1]].res),
                              ![c].log = ClosureOutcome[conns[c].req[1]].log]
    /\ UNCHANGED <<server, appVars, routerVars, tableVars, respVars, parseVars, dispVars>>

\* A step of the task spawned for connection c.  The runtime runs every task
\* whose await has completed, so a task that is not stalled takes its step.
ConnStep(c) ==
    \/ read_fails(c)
    \/ \E bytes \in RawInputs \cup {<<>>} : handle_connection_read(c, bytes)
    \/ \E ok \in BOOLEAN : handle_connection_write(c, ok)
    \/ \E bytes \in RawInputs \cup {<<>>} : task_read(c, bytes)
    \/ task_handle_tabled(c)
    \/ \E ok \in BOOLEAN : task_write(c, ok)

SpecListenerFair == SpecListener /\ \A c \in ConnIds : WF_vars(ConnStep(c))

(***************************************************************************)
(* C6. Parse failure: when the bytes read from a connection do not parse   *)
(* into a Request, the listener writes the fixed 400 Bad Request response  *)
(* with an empty body to the connection, and no route handler or global    *)
(* middleware is invoked for it.                                           *)
(***************************************************************************)
ParseFailed(c) ==
    /\ conns[c].input # None
    /\ Len(conns[c].input[1]) > 0
    /\ from_raw(conns[c].input[1]) = None

C6_ParseFailure ==
    \A c \in ConnIds :
        (conns[c].pc = "closed" /\ ParseFailed(c)) =>
            /\ conns[c].sent = Some(BadRequest)
            /\ conns[c].log = <<>>

\* What holds of the code: handle_connection answers 400, the task of
\* listen_with_handler answers nothing; neither runs a handler.
C6_AsCoded ==
    \A c \in ConnIds :
        (conns[c].pc = "closed" /\ ParseFailed(c)) =>
            /\ conns[c].sent =
                   IF server.via = "listen" THEN Some(BadRequest) ELSE None
            /\ conns[c].log = <<>>

(***************************************************************************)
(* C11. Failure isolation: no outcome of the unit of work of a connection  *)
(* (read error, zero-byte read, parse failure, handler result, write       *)
(* error) stops the accept loop or changes the outcome of the unit of work *)
(* of another connection.                                                  *)
(***************************************************************************)
\* What the task of connection c ends with, given what it read: a function
\* of the bytes read and of the tables, and of nothing any other task did.
OwnOutcome(c) ==
    LET conn == conns[c]
        req == from_raw(conn.input[1])
    IN  IF Len(conn.input[1]) = 0
        THEN conn.sent = None
        ELSE IF server.via = "listen"
        THEN IF req = None
             THEN conn.sent = Some(BadRequest)
             ELSE \E order \in Orders(DOMAIN received(req[1]).headers) :
                      conn.sent = Some(build(received(req[1]), order))
        ELSE IF req = None
             THEN conn.sent = None
             ELSE LET r == listen_closure(routes, middlewares, req[1])
                  IN  \E order \in Orders(DOMAIN r.res.headers) :
                          conn.sent = Some(build(r.res, order))

OutcomesAreOwn ==
    \A c \in ConnIds :
        (conns[c].pc = "closed" /\ ~conns[c].read_err) => OwnOutcome(c)

\* A step of a task leaves the accept loop and every other task as they were.
TaskStepIsolated ==
    \A c \in ConnIds :
        (conns[c].pc # "none" /\ conns'[c] # conns[c]) =>
            /\ server' = server
            /\ \A d \in ConnIds \ {c} : conns'[d] = conns[d]

C11_FailureIsolation == [] OutcomesAreOwn /\ [][TaskStepIsolated]_vars

\* The first connection failed in its write, the loop still runs and the
\* second connection was served after it.
C11_Witness ==
    /\ server.via = "listen_with_handler"
    /\ server.running
    /\ conns[1].pc = "closed" /\ conns[1].sent # None /\ conns[1].wire = None
    /\ conns[2].pc = "closed" /\ conns[2].wire # None

(***************************************************************************)
(* C12. Non-blocking accept: the listener accepts the next connection      *)
(* without waiting for the task of an earlier one; when the read of one    *)
(* connection stalls or its handler never returns, every other accepted    *)
(* connection whose own awaits complete still gets to the end of its task, *)
(* its response written.                                                   *)
(***************************************************************************)
AcceptReady ==
    (server.running /\ \E c \in ConnIds : conns[c].pc = "none") =>
        ENABLED (\E c \in ConnIds : accept(c))

Accepted(c) == conns[c].pc \in {"reading", "dispatching", "writing"}

Finished(c) ==
    \/ conns[c].pc = "stalled"
    \/ conns[c].pc = "closed" /\ (conns[c].res # None => conns[c].sent # None)

\* The tabled step is the step of task_handle.
TabledIsHandle ==
    \A c \in ConnIds :
        conns[c].pc = "dispatching" => (task_handle(c) <=> task_handle_tabled(c))

C12_NonBlockingAccept ==
    /\ [] AcceptReady
    /\ [][TabledIsHandle]_vars
    /\ \A c \in ConnIds : Accepted(c) ~> Finished(c)

\* The first connection stalled, the second was accepted after it and has its
\* response written.
C12_Witness ==
    /\ conns[1].pc = "stalled"
    /\ conns[2].pc = "closed" /\ conns[2].wire # None

(***************************************************************************)
(* C13. One-pass connection lifecycle: within one connection the steps     *)
(* come in the order read, parse, dispatch, write, close; a connection is  *)
(* read at most once, dispatched at most once and written at most once     *)
(* (a failed write is not tried again), and is then closed.                *)
(***************************************************************************)
Rank(pc) ==
    CASE pc = "none" -> 0
      [] pc = "reading" -> 1
      [] pc = "dispatching" -> 2
      [] pc = "writing" -> 3
      [] OTHER -> 4

OnePassStep ==
    \A c \in ConnIds :
        conns'[c] # conns[c] =>
            /\ Rank(conns'[c].pc) > Rank(conns[c].pc)
            /\ conns'[c].input # conns[c].input => conns[c].pc = "reading"
            /\ conns'[c].req # conns[c].req => conns[c].pc = "reading"
            /\ conns'[c].log # conns[c].log => conns[c].pc = "dispatching"
            /\ conns'[c].sent # conns[c].sent =>
                   conns[c].pc = "writing" /\ conns'[c].pc = "closed"

\* What a connection holds tells how far it went: a request only of bytes
\* read, a trace only of a request, bytes sent only once it is closed.
InOrder ==
    \A c \in ConnIds :
        /\ conns[c].pc \in {"none", "reading"} =>
               conns[c].input = None /\ conns[c].req = None /\ conns[c].res = None
        /\ conns[c].req # None =>
               conns[c].input # None /\ conns[c].req = from_raw(conns[c].input[1])
        /\ conns[c].log # <<>> => conns[c].req # None
        /\ conns[c].pc = "dispatching" => conns[c].res = None
        /\ conns[c].sent # None => conns[c].pc = "closed"

C13_OnePassLifecycle == [] InOrder /\ [][OnePassStep]_vars

\* A connection that went through every step, its write failing.
C13_Witness ==
    \E c \in ConnIds :
        /\ conns[c].pc = "closed"
        /\ conns[c].req # None /\ conns[c].log # <<>>
        /\ conns[c].sent # None /\ conns[c].wire = None

(***************************************************************************)
(* C20. Zero-byte read: when the read of a connection returns zero bytes   *)
(* the connection is closed at once: nothing is written to it, nothing is  *)
(* parsed and no handler or middleware runs for it.                        *)
(***************************************************************************)
ReadZero(c) == conns[c].input = Some(<<>>)

C20_ZeroByteRead ==
    \A c \in ConnIds :
        ReadZero(c) =>
            /\ conns[c].pc = "closed"
            /\ conns[c].sent = None /\ conns[c].wire = None
            /\ conns[c].req = None /\ conns[c].res = None
            /\ conns[c].log = <<>>

C20_Witness ==
    /\ server.via = "listen"
    /\ \E c \in ConnIds : ReadZero(c) /\ conns[c].pc = "closed"

(***************************************************************************)
(* Reading the outcome of the last dispatch.                                *)
(***************************************************************************)
IsCallOf(e, tags) == e.ev = "call" /\ e.id[1] \in tags
CallOrder(log, tags) ==
    LET calls == SelectSeq(log, LAMBDA e : IsCallOf(e, tags))
    IN  [i \in 1..Len(calls) |-> calls[i].id]

Dispatched == last # None
D == last[1]
RouteLen(d) == IF d.route_handler # None /\ d.route_handler[1].type = "chained"
               THEN Len(d.route_handler[1].handlers) ELSE 0
RouteRan(d) == RouteLen(d) > 0 /\ Called(d.log, RouteId)
TerminalId(d) == IF d.route_handler # None THEN RouteId ELSE NotFoundId

(***************************************************************************)
(* C1. Per-route short-circuit: when the handlers before index k of a      *)
(* route chain pass through and handler k returns without invoking its     *)
(* continuation, the composed route handler returns the Response handler k *)
(* returned, no handler after k is invoked, and the status and body of the *)
(* final Response are those handler k set.                                 *)
(***************************************************************************)
C1_RouteShortCircuit ==
    Dispatched /\ RouteRan(D) =>
        \A k \in 0..(RouteLen(D) - 1) :
            (/\ ShortCircuited(D.log, HId(k))
             /\ \A i \in 0..(k - 1) : PassedThrough(D.log, HId(i)))
            => /\ RetRes(D.log, RouteId) = RetRes(D.log, HId(k))
               /\ \A j \in (k + 1)..(RouteLen(D) - 1) : ~Called(D.log, HId(j))
               /\ D.res.status_code = RetRes(D.log, HId(k)).status_code
               /\ D.res.body = RetRes(D.log, HId(k)).body

\* main.rs, GET /protected without the role header: 403, second handler not run.
C1_Witness ==
    /\ Dispatched
    /\ RouteLen(D) = 2
    /\ ShortCircuited(D.log, HId(0))
    /\ ~Called(D.log, HId(1))
    /\ D.res.status_code = 403
    /\ D.mws # <<>>

(***************************************************************************)
(* C2. Per-route ordering.  When every handler of a route chain invokes    *)
(* its continuation exactly once, the handlers start in index order, each  *)
(* once.  The composed handler returns what handler 0 returns: each        *)
(* handler receives from its continuation what the next handler returned,  *)
(* so the result is that of the last handler only when the handlers before *)
(* it return what they received unchanged.                                 *)
(***************************************************************************)
AllInvokeNextOnce(d) ==
    /\ RouteRan(d)
    /\ \A i \in 0..(RouteLen(d) - 1) : Cardinality(At(d.log, "next", HId(i))) = 1

InIndexOrder(d) ==
    CallOrder(d.log, {"h"}) = [i \in 1..RouteLen(d) |-> HId(i - 1)]

\* The claim as written: the result is always that of the last handler.
C2_AsWritten ==
    Dispatched /\ AllInvokeNextOnce(D) =>
        /\ InIndexOrder(D)
        /\ RetRes(D.log, RouteId) = RetRes(D.log, HId(RouteLen(D) - 1))

C2_RouteOrdering ==
    Dispatched /\ AllInvokeNextOnce(D) =>
        /\ InIndexOrder(D)
        /\ RetRes(D.log, RouteId) = RetRes(D.log, HId(0))
        /\ \A i \in 0..(RouteLen(D) - 2) :
               NextRes(D.log, HId(i)) = RetRes(D.log, HId(i + 1))
        /\ (\A i \in 0..(RouteLen(D) - 2) : PassedThrough(D.log, HId(i)))
               => RetRes(D.log, RouteId) = RetRes(D.log, HId(RouteLen(D) - 1))

C2_Witness ==
    /\ Dispatched
    /\ RouteLen(D) = 2
    /\ AllInvokeNextOnce(D)
    /\ RetRes(D.log, HId(0)) # RetRes(D.log, HId(1))

(***************************************************************************)
(* C3. Global middleware ordering: when every registered middleware        *)
(* invokes its continuation, the stages start in the order m0, m1, ...,    *)
(* m(k-1), then the terminal handler (the route's chain or the 404         *)
(* handler): registration order is execution order.                        *)
(***************************************************************************)
AllMiddlewaresInvokeNext(d) ==
    \A i \in 0..(Len(d.mws) - 1) : InvokedNext(d.log, MwId(i))

C3_GlobalOrdering ==
    Dispatched /\ AllMiddlewaresInvokeNext(D) =>
        CallOrder(D.log, {"m", "route", "notfound"}) =
            [i \in 1..(Len(D.mws) + 1) |->
                IF i <= Len(D.mws) THEN D.mws[i].id ELSE TerminalId(D)]

C3_Witness ==
    /\ Dispatched
    /\ Len(D.mws) = 3
    /\ D.mws[1].kind # D.mws[2].kind
    /\ D.mws[2].kind # D.mws[3].kind
    /\ AllMiddlewaresInvokeNext(D)
    /\ Called(D.log, RouteId)

(***************************************************************************)
(* C4. End of the route chain: when the last handler of a route chain      *)
(* invokes its continuation, the continuation yields the Response that was *)
(* handed to that handler, as it is, and the 500 fallback is not invoked;  *)
(* when every handler invokes its continuation and the last returns a 200, *)
(* the final Response is a 200, not a 500.                                 *)
(***************************************************************************)
LastH(d) == HId(RouteLen(d) - 1)

C4_EndOfRouteChain ==
    Dispatched /\ RouteRan(D) /\ InvokedNext(D.log, LastH(D)) =>
        /\ NextRes(D.log, LastH(D)) = GivenRes(D.log, LastH(D))
        /\ ~Called(D.log, FallbackId)
        /\ (AllInvokeNextOnce(D) /\ RetRes(D.log, LastH(D)).status_code = 200)
               => /\ RetRes(D.log, RouteId).status_code = 200
                  /\ D.res.status_code = 200

C4_Witness ==
    /\ Dispatched
    /\ RouteLen(D) = 2
    /\ AllInvokeNextOnce(D)
    /\ RetRes(D.log, LastH(D)).status_code = 200
    /\ D.res.status_code = 200

(***************************************************************************)
(* C5. Route not found: a request whose method and path match no route is  *)
(* answered by the 404 handler, wrapped by the global middlewares like a   *)
(* route's handler: a middleware runs exactly when those before it invoked *)
(* their continuation, the 404 handler runs exactly when all did, it       *)
(* returns 404 "Not Found", and that status and body are the final         *)
(* Response's.                                                             *)
(***************************************************************************)
ReachedStage(d, i) == \A j \in 0..(i - 1) : InvokedNext(d.log, MwId(j))

C5_NotFound ==
    Dispatched /\ D.route_handler = None =>
        /\ \A i \in 0..(Len(D.mws) - 1) :
               Called(D.log, MwId(i)) <=> ReachedStage(D, i)
        /\ Called(D.log, NotFoundId) <=> AllMiddlewaresInvokeNext(D)
        /\ ~Called(D.log, RouteId)
        /\ AllMiddlewaresInvokeNext(D) =>
               /\ RetRes(D.log, NotFoundId).status_code = 404
               /\ RetRes(D.log, NotFoundId).status_text = "Not Found"
               /\ D.res.status_code = 404
               /\ D.res.body = Some("Not Found")

C5_Witness ==
    /\ Dispatched
    /\ D.route_handler = None
    /\ routes # EmptyMap
    /\ Len(D.mws) >= 2
    /\ AllMiddlewaresInvokeNext(D)
    /\ D.res.status_code = 404
    /\ "Access-Control-Allow-Origin" \in DOMAIN D.res.headers

(***************************************************************************)
(* C9. Global middleware short-circuit.  When middleware mj returns        *)
(* without invoking its continuation, no later middleware and no terminal  *)
(* handler is invoked.  m(j-1) receives mj's Response from its             *)
(* continuation; every enclosing stage receives what the stage inside it   *)
(* returned, which is mj's Response only while the stages between return   *)
(* it unchanged.                                                           *)
(***************************************************************************)
NothingAfter(d, j) ==
    /\ \A i \in (j + 1)..(Len(d.mws) - 1) : ~Called(d.log, MwId(i))
    /\ ~Called(d.log, RouteId)
    /\ ~Called(d.log, NotFoundId)

\* The claim as written: every enclosing stage receives mj's own Response.
C9_AsWritten ==
    Dispatched =>
        \A j \in 0..(Len(D.mws) - 1) :
            ShortCircuited(D.log, MwId(j)) =>
                /\ NothingAfter(D, j)
                /\ \A i \in 0..(j - 1) : NextRes(D.log, MwId(i)) = RetRes(D.log, MwId(j))

C9_GlobalShortCircuit ==
    Dispatched =>
        \A j \in 0..(Len(D.mws) - 1) :
            ShortCircuited(D.log, MwId(j)) =>
                /\ NothingAfter(D, j)
                /\ \A i \in 0..(j - 1) :
                       /\ NextRes(D.log, MwId(i)) = RetRes(D.log, MwId(i + 1))
                       /\ (\A l \in (i + 1)..(j - 1) : PassedThrough(D.log, MwId(l)))
                              => NextRes(D.log, MwId(i)) = RetRes(D.log, MwId(j))

C9_Witness ==
    /\ Dispatched
    /\ Len(D.mws) = 3
    /\ ShortCircuited(D.log, MwId(1))
    /\ InvokedNext(D.log, MwId(0))
    /\ D.route_handler # None

(***************************************************************************)
(* C10. Post-processing by a global middleware: when the cors middleware   *)
(* runs, it invokes its continuation once, and the final Response carries  *)
(* Access-Control-Allow-Origin: * together with the status and body that   *)
(* the chain inside it produced.                                           *)
(***************************************************************************)
C10_PostProcessing ==
    Dispatched =>
        \A i \in 0..(Len(D.mws) - 1) :
            (D.mws[i + 1].kind = "cors" /\ Called(D.log, MwId(i))) =>
                /\ Cardinality(At(D.log, "next", MwId(i))) = 1
                /\ "Access-Control-Allow-Origin" \in DOMAIN D.res.headers
                /\ D.res.headers["Access-Control-Allow-Origin"] = "*"
                /\ D.res.status_code = NextRes(D.log, MwId(i)).status_code
                /\ D.res.status_text = NextRes(D.log, MwId(i)).status_text
                /\ D.res.body = NextRes(D.log, MwId(i)).body

\* cors plus GET /x answering 200 with a body.
C10_Witness ==
    /\ Dispatched
    /\ D.mws # <<>>
    /\ D.mws[1].kind = "cors"
    /\ D.req.method = "GET" /\ D.req.path = "/x"
    /\ RouteLen(D) = 1
    /\ D.route_handler[1].handlers[1].kind = "welcome"
    /\ D.res.status_code = 200
    /\ D.res.body # None
    /\ D.res.headers["Access-Control-Allow-Origin"] = "*"

(***************************************************************************)
(* C17. The fixed 500 fallback is unreachable through dispatch: whatever   *)
(* routes and middlewares are registered and however often each stage      *)
(* invokes its continuation, neither the 500 continuation the listen       *)
(* closure hands to the chain nor the one handed to an inner stage is      *)
(* invoked; a final 500 comes only from a handler that sets it itself.     *)
(***************************************************************************)
FallbackInvoked(log) == Called(log, FallbackId)

\* Some registered function returned a 500 it was not handed.
HandlerSet500(log) ==
    \E i \in DOMAIN log :
        /\ log[i].ev = "ret"
        /\ log[i].id \notin {FallbackId, RouteId, NotFoundId}
        /\ log[i].res.status_code = 500

C17_FallbackUnreachable ==
    Dispatched =>
        /\ ~FallbackInvoked(D.log)
        /\ D.res.status_code = 500 => HandlerSet500(D.log)

\* A middleware and a route handler each invoked their continuation more
\* than once, on a route whose last handler invokes it too.
C17_Witness ==
    /\ Dispatched
    /\ Cardinality(At(D.log, "next", MwId(0))) = 2
    /\ Cardinality(At(D.log, "next", HId(0))) > 2
    /\ RouteLen(D) = 2
    /\ D.route_handler[1].handlers[2].kind = "invokes_next_twice"
    /\ ~FallbackInvoked(D.log)

(***************************************************************************)
(* C18. Zero global middlewares is the identity wrapper: with no global    *)
(* middleware registered the composed chain returns, for every request,    *)
(* the Response the per-route chain (or the 404 handler) returns, and      *)
(* invokes the same handlers.                                              *)
(***************************************************************************)
\* The route chain (or the 404 handler) run on its own on a fresh Response.
RouteAlone(d) ==
    CallHandler(final_handler_of(d.route_handler), d.req, Response_new, FallbackNext)

C18_ZeroMiddlewares ==
    (Dispatched /\ D.mws = <<>>) =>
        /\ D.res = RouteAlone(D).res
        /\ D.log = RouteAlone(D).log

\* No middleware, a route of two handlers that both ran.
C18_Witness ==
    /\ Dispatched
    /\ D.mws = <<>>
    /\ RouteLen(D) = 2
    /\ Called(D.log, HId(1))

(***************************************************************************)
(* C21. Fresh initial Response per request: for every request dispatched,  *)
(* on every connection and whatever requests came before or run beside     *)
(* it, the Response handed to the outermost stage of the chain is the      *)
(* fresh value: status 200, no headers, no body.                           *)
(***************************************************************************)
Fresh(res) ==
    /\ res.status_code = 200
    /\ res.headers = EmptyMap
    /\ res.body = None

C21_FreshResponse ==
    \A c \in ConnIds :
        conns[c].log # <<>> =>
            /\ conns[c].log[1].ev = "call"
            /\ Fresh(conns[c].log[1].res)

\* Two connections were dispatched, the first answered with headers and a
\* status other than 200.
C21_Witness ==
    /\ conns[1].res # None /\ conns[1].res[1].status_code # 200
    /\ conns[1].res[1].headers # EmptyMap
    /\ conns[1].pc = "closed"
    /\ conns[2].log # <<>>

(***************************************************************************)
(* C25. The Request is constant through the chain: every global middleware *)
(* and every route handler invoked for a request receives a Request equal  *)
(* to the one parsed from the bytes of the connection.                     *)
(***************************************************************************)
C25_RequestConstant ==
    \A c \in ConnIds :
        \A i \in DOMAIN conns[c].log :
            (conns[c].log[i].ev = "call" /\ conns[c].log[i].id # FallbackId) =>
                conns[c].log[i].req = from_raw(conns[c].input[1])[1]

\* Three middlewares and both handlers of GET /protected ran on a connection.
C25_Witness ==
    \E c \in ConnIds :
        /\ Called(conns[c].log, MwId(2))
        /\ Called(conns[c].log, HId(0))
        /\ Called(conns[c].log, HId(1))

(***************************************************************************)
(* C26. The Response forwarded is the stage's input: the continuation of a *)
(* stage hands the next stage the Response the stage itself received, so   *)
(* every stage of the global chain and of the route chain receives the     *)
(* fresh initial Response, and the continuation at the end of the route    *)
(* chain yields that same value.                                           *)
(***************************************************************************)
C26_ForwardedResponse ==
    Dispatched =>
        /\ \A i \in DOMAIN D.log :
               D.log[i].ev = "call" => D.log[i].res = Response_new
        /\ (RouteLen(D) > 0 /\ InvokedNext(D.log, LastH(D))) =>
               NextRes(D.log, LastH(D)) = Response_new

\* Two middlewares, cors among them, and a route of two handlers whose last
\* one invoked its continuation.
C26_Witness ==
    /\ Dispatched
    /\ Len(D.mws) >= 2
    /\ \E i \in DOMAIN D.mws : D.mws[i].kind = "cors"
    /\ RouteLen(D) = 2
    /\ InvokedNext(D.log, LastH(D))

(***************************************************************************)
(* C22. Response mutators change only their own field: status changes the  *)
(* status code and the status text and leaves headers and body as they     *)
(* were; set_header adds or replaces exactly one header key and leaves     *)
(* status, body and every other header; send changes only the body; json   *)
(* changes the body and the Content-Type header and nothing else.          *)
(***************************************************************************)
SameStatus(a, b) == a.status_code = b.status_code /\ a.status_text = b.status_text

OneHeaderSet(a, b, key, value) ==
    /\ DOMAIN b.headers = DOMAIN a.headers \cup {key}
    /\ b.headers[key] = value
    /\ \A k \in DOMAIN a.headers \ {key} : b.headers[k] = a.headers[k]

C22_MutatorFrames ==
    /\ \A code \in Codes :
           LET r == status(response, code)
           IN  /\ r.status_code = code
               /\ r.headers = response.headers
               /\ r.body = response.body
    /\ \A key \in HeaderNames, value \in HeaderValues :
           LET r == set_header(response, key, value)
           IN  /\ OneHeaderSet(response, r, key, value)
               /\ SameStatus(response, r)
               /\ r.body = response.body
    /\ \A body \in Bodies :
           LET r == send(response, body)
           IN  /\ r.body = Some(body)
               /\ SameStatus(response, r)
               /\ r.headers = response.headers
    /\ \A data \in Bodies :
           LET r == json(response, data)
           IN  /\ r.body = Some(data)
               /\ OneHeaderSet(response, r, "Content-Type", "application/json")
               /\ SameStatus(response, r)

\* A Response with two headers (Content-Type not the JSON one), a body and a
\* status other than 200: every mutator has something to leave alone.
C22_Witness ==
    /\ response.status_code = 403
    /\ DOMAIN response.headers = HeaderNames
    /\ response.headers["Content-Type"] = "text/plain"
    /\ response.body = Some("hi")

(***************************************************************************)
(* C24. Re-entrant continuation: a continuation may be invoked more than   *)
(* once; every invocation runs the downstream chain again from the same    *)
(* position with the same Request and Response, so the invocations of one  *)
(* run of a handler produce the same events and yield the same Response,   *)
(* the next stage is called once in each invocation, and where no          *)
(* downstream handler invokes its own continuation twice every downstream  *)
(* handler is called once in each invocation.                              *)
(***************************************************************************)
Nexts(log) == {j \in DOMAIN log : log[j].ev = "next"}

\* The call event that started the run of the handler in which j happened.
RunStart(log, j) ==
    CHOOSE c \in 1..j :
        /\ log[c].ev = "call" /\ log[c].id = log[j].id
        /\ \A k \in (c + 1)..j : ~(log[k].ev = "call" /\ log[k].id = log[j].id)

\* The event of that run before the invocation that ended at j: the call, or
\* the end of the invocation before.
PrevMark(log, j) ==
    CHOOSE i \in RunStart(log, j)..(j - 1) :
        /\ i = RunStart(log, j) \/ (log[i].ev = "next" /\ log[i].id = log[j].id)
        /\ \A k \in (i + 1)..(j - 1) : ~(log[k].ev = "next" /\ log[k].id = log[j].id)

\* What the invocation that ended at j ran.
Segment(log, j) == SubSeq(log, PrevMark(log, j) + 1, j - 1)

CallsIn(seg, id) == {k \in DOMAIN seg : seg[k].ev = "call" /\ seg[k].id = id}
NextsIn(seg, id) == {k \in DOMAIN seg : seg[k].ev = "next" /\ seg[k].id = id}
IdsIn(seg) == {seg[k].id : k \in DOMAIN seg}

\* Past the last handler of a route nothing is downstream and the invocation
\* leaves no event.
RunsDownstreamOnce(seg, res) ==
    seg # <<>> =>
    /\ seg[1].ev = "call"
    /\ Cardinality(CallsIn(seg, seg[1].id)) = 1
    /\ seg[Len(seg)].ev = "ret" /\ seg[Len(seg)].id = seg[1].id
    /\ seg[Len(seg)].res = res
    /\ (\A id \in IdsIn(seg) : Cardinality(NextsIn(seg, id)) <= 1) =>
           \A id \in IdsIn(seg) : Cardinality(CallsIn(seg, id)) = 1

C24_ReentrantContinuation ==
    Dispatched =>
        /\ \A j \in Nexts(D.log) :
               /\ RunsDownstreamOnce(Segment(D.log, j), D.log[j].res)
               /\ Segment(D.log, j) = <<>> => D.log[j].id = LastH(D)
        /\ \A i, j \in Nexts(D.log) :
               (D.log[i].id = D.log[j].id /\ RunStart(D.log, i) = RunStart(D.log, j)) =>
                   /\ D.log[i].res = D.log[j].res
                   /\ Segment(D.log, i) = Segment(D.log, j)

\* The first middleware invoked its continuation twice over a middleware and
\* two route handlers that each invoke theirs once: each of them ran twice.
C24_Witness ==
    /\ Dispatched
    /\ Len(D.mws) >= 2
    /\ Cardinality(At(D.log, "next", MwId(0))) = 2
    /\ Cardinality(At(D.log, "call", MwId(1))) = 2
    /\ Cardinality(At(D.log, "next", MwId(1))) = 2
    /\ Cardinality(At(D.log, "call", HId(1))) = 2

(***************************************************************************)
(* C29. Route key injectivity at dispatch: the key built from the method   *)
(* token and the path of a request equals the key of a registered route    *)
(* only if the method and the path of the request are the method and the   *)
(* path of that route, also when a path or a method token holds a ':'.     *)
(***************************************************************************)
RegisteredMethods == {"GET", "POST"}

Registered(method, path) ==
    /\ method \in RegisteredMethods
    /\ path \in KeyPaths
    /\ (method \o ":" \o path) \in DOMAIN routes

C29_KeyInjective ==
    (Dispatched /\ D.route_handler # None) => Registered(D.req.method, D.req.path)

====
